---- MODULE Spec2Model ----
(***************************************************************************)
(* Sharded concurrent map (package cmap, concurrent_map.go).               *)
(*                                                                         *)
(* The map is an array of shards, each a Go map guarded by a               *)
(* sync.RWMutex.  Every goroutine that calls the map is a thread of the    *)
(* model; every statement that touches a lock, a shard's map, a channel    *)
(* or the global SHARD_COUNT is one step.                                  *)
(***************************************************************************)
EXTENDS Integers, Sequences, FiniteSets, TLC

\* ------------------------------------------------------------------------
\* Bounds of the model
\* ------------------------------------------------------------------------
MaxThreads == 2      \* goroutines calling the map
MaxOps == 2          \* calls each goroutine makes
MaxKey == 3          \* keys "a", "b", ... (one byte each)
MaxVal == 2          \* values 1..MaxVal passed by callers
ShardsAtNew == 2     \* value of SHARD_COUNT when the map is constructed

Threads == 1..MaxThreads
Vals == 1..MaxVal
ZeroVal == 0         \* the zero value of V (V = int)
Keys == { <<96 + i>> : i \in 1..MaxKey }
\* goroutines: <<t, 0>> is thread t itself, <<t, i>> the goroutine a bulk call
\* of thread t started for the i-th shard
G(t) == <<t, 0>>
None == <<0, 0>>     \* "no goroutine" in a lock's writer slot

\* ------------------------------------------------------------------------
\* Hasher: fnv32 on 32-bit unsigned integers, kept as two 16-bit halves
\* ------------------------------------------------------------------------
Half == 65536
OffsetHi == 33052    \* 2166136261 = 33052 * 65536 + 40389
OffsetLo == 40389
PrimeHi == 256       \* 16777619 = 256 * 65536 + 403
PrimeLo == 403

RECURSIVE Xor(_, _, _)
\* bitwise exclusive or of the low n bits of a and b
Xor(a, b, n) ==
    IF n = 0 THEN 0
    ELSE (((a % 2) + (b % 2)) % 2) + 2 * Xor(a \div 2, b \div 2, n - 1)

\* hash *= prime32  (mod 2^32)
MulPrime(h) ==
    LET low == h.lo * PrimeLo
    IN  [hi |-> (h.hi * PrimeLo + h.lo * PrimeHi + (low \div Half)) % Half,
         lo |-> low % Half]

\* hash ^= uint32(key[i])
XorByte(h, b) == [hi |-> h.hi, lo |-> Xor(h.lo, b, 16)]

RECURSIVE fnvLoop(_, _, _)
fnvLoop(key, i, h) ==
    IF i > Len(key) THEN h
    ELSE fnvLoop(key, i + 1, XorByte(MulPrime(h), key[i]))

fnv32(key) == fnvLoop(key, 1, [hi |-> OffsetHi, lo |-> OffsetLo])

\* uint(h) % uint(n), n > 0
ModU32(h, n) == ((h.hi % n) * (Half % n) + (h.lo % n)) % n

\* ------------------------------------------------------------------------
\* Go maps: partial functions from keys to values
\* ------------------------------------------------------------------------
EmptyMap == [k \in {} |-> ZeroVal]
Has(items, k) == k \in DOMAIN items
\* (mutant) the lookup reports every key as found
LookupFound(items, k) ==
    [v |-> IF k \in DOMAIN items THEN items[k] ELSE ZeroVal, ok |-> TRUE]
\* v, ok := items[k]
Lookup(items, k) ==
    IF k \in DOMAIN items THEN [v |-> items[k], ok |-> TRUE]
    ELSE [v |-> ZeroVal, ok |-> FALSE]
\* (mutant) the store replaces the shard's map by a map of the one pair
StoreAlone(items, k, v) == [x \in {k} |-> v]
\* items[k] = v
Store(items, k, v) ==
    [x \in (DOMAIN items) \cup {k} |-> IF x = k THEN v ELSE items[x]]
\* (mutant) the deletion is left out
DeleteNothing(items, k) == items
\* delete(items, k)
Delete(items, k) == [x \in (DOMAIN items) \ {k} |-> items[x]]

\* the ghost variables' own copies of the three map operations
GhostLookup(g, k) ==
    IF k \in DOMAIN g THEN [v |-> g[k], ok |-> TRUE] ELSE [v |-> ZeroVal, ok |-> FALSE]
GhostStore(g, k, v) == [x \in (DOMAIN g) \cup {k} |-> IF x = k THEN v ELSE g[x]]
GhostDelete(g, k) == [x \in (DOMAIN g) \ {k} |-> g[x]]

\* ------------------------------------------------------------------------
\* State
\* ------------------------------------------------------------------------
VARIABLES
    shardCount,   \* the package variable SHARD_COUNT
    sharding,     \* m.sharding: "fnv32", or "nil" in the zero value
    shards,       \* m.shards: sequence of the shards' items maps
    writer,       \* per shard: the goroutine holding Lock, or None
    readers,      \* per shard: the set of goroutines holding RLock
    panic,        \* "none", or the panic that aborted the process
    pc,           \* per thread: position in the current call
    op,           \* per thread: the current (or last) call
    loc,          \* per thread: the call's local variables
    res,          \* per thread: the call's result
    left,         \* per thread: calls still to make
    bulk,         \* per thread: the state of its Count, Keys, IterCb or snapshot
    kept,         \* per thread: what it keeps of its MarshalJSON for UnmarshalJSON
    last,         \* ghost: key -> value last passed to Set by the key's owner
    abs,          \* ghost: key -> value, as the writes took effect
    pre,          \* ghost: per thread, content of its key at its first access
    hist,         \* ghost: per key, what has been written to it
    track         \* ghost: whether hist is recorded in this specification

mapVars == <<shards, writer, readers>>
cfgVars == <<shardCount, sharding>>
thrVars == <<pc, op, loc, res, left, bulk>>
ghostVars == <<abs, pre, hist, track, last>>
vars == <<cfgVars, kept, mapVars, panic, thrVars, ghostVars>>

NoKey == <<>>
\* a call: inner is the key a callback that calls the map passes to it
NoOp == [name |-> "none", key |-> NoKey, val |-> ZeroVal, cb |-> "none",
         data |-> EmptyMap, inner |-> NoKey]
\* the locals of a keyed call; args (ghost): the argument lists its callback
\* has been called with
\* in: the shard the call a callback makes has routed to
NoLoc == [key |-> NoKey, val |-> ZeroVal, sh |-> 0, v |-> ZeroVal, ok |-> FALSE,
          pending |-> {}, args |-> <<>>, in |-> 0]
NoRes == [v |-> ZeroVal, ok |-> FALSE]
\* a channel: nil until made; buf holds the tuples sent and not yet received
NilChan == [made |-> FALSE, cap |-> 0, buf |-> <<>>, closed |-> FALSE]
\* (mutant) every channel is made unbuffered
MakeChanUnbuffered(n) == [made |-> TRUE, cap |-> 0, buf |-> <<>>, closed |-> FALSE]
MakeChan(n) == [made |-> TRUE, cap |-> n, buf |-> <<>>, closed |-> FALSE]
\* the state of a bulk call:
\*   i, count  Count's and IterCb's loop index, Count's sum
\*   chans     snapshot's chans: one channel per shard
\*   wg        the WaitGroup's counter
\*   task      per shard, where the goroutine started for it is:
\*             "rlock" (before RLock), "send" (in its range loop), "done"
\*   seen      per shard, the tuples its range loop has passed on so far
\*   out       the channel the consumer ranges over
\*   fan       per channel, where fanIn's goroutine for it is: "recv", "done"
\*   tmp       the map the consumer (or IterCb's callback) builds
\*   keys      the slice Keys builds
\*   at        ghost: per shard, its items when its goroutine took the lock
\*   quiet     ghost: every other thread had finished when the call began
\*   late      ghost (Clear): the keys stored since their shard was snapshotted
\*   sizes     ghost (Count): the numbers of stored keys there have been since
\*             the call began
\*   states    ghost (IterCb, Keys): the contents the map has had since the
\*             call began; (Iter, IterBuffered): until snapshot returned
\*   got       ghost (Iter, IterBuffered): the tuples the consumer has
\*             received, in order
NoBulk == [i |-> 0, count |-> 0, chans |-> <<>>, wg |-> 0, task |-> <<>>,
           seen |-> <<>>, out |-> NilChan, fan |-> <<>>, tmp |-> EmptyMap,
           keys |-> <<>>, at |-> <<>>, quiet |-> FALSE, late |-> {},
           sizes |-> {}, states |-> {}, got |-> <<>>]
\* what a caller keeps between its calls:
\*   has, b   whether its MarshalJSON has returned, and the bytes returned
\*   n        the shards of the map it constructs and decodes b into
\*   done     whether its UnmarshalJSON has returned
\*   src      ghost: the content of m when its MarshalJSON began
\*   alone    ghost: no other thread was in a call, or began one, while its
\*            MarshalJSON ran
NoKept == [has |-> FALSE, b |-> <<>>, n |-> <<>>, done |-> FALSE,
           src |-> EmptyMap, alone |-> FALSE]
NoHist == [wins |-> 0, pops |-> 0, pure |-> TRUE, n |-> 0, rets |-> {}]

\* create(): SHARD_COUNT shards, each with an empty map
create(n) == [i \in 1..n |-> EmptyMap]

InitThreads ==
    /\ pc = [t \in Threads |-> "idle"]
    /\ op = [t \in Threads |-> NoOp]
    /\ loc = [t \in Threads |-> NoLoc]
    /\ res = [t \in Threads |-> NoRes]
    /\ left = [t \in Threads |-> MaxOps]
    /\ bulk = [t \in Threads |-> NoBulk]
    /\ kept = [t \in Threads |-> NoKept]
    /\ last = EmptyMap
    /\ panic = "none"
    /\ abs = EmptyMap
    /\ pre = [t \in Threads |-> NoRes]
    /\ hist = [k \in Keys |-> NoHist]

\* m := New[int]()
InitNew ==
    /\ shardCount = ShardsAtNew
    /\ sharding = "fnv32"
    /\ shards = create(ShardsAtNew)
    /\ writer = [i \in 1..ShardsAtNew |-> None]
    /\ readers = [i \in 1..ShardsAtNew |-> {}]
    /\ InitThreads

Init == InitNew /\ track = FALSE

\* var m ConcurrentMap[string, int]
InitZero ==
    /\ shardCount = ShardsAtNew
    /\ sharding = "nil"
    /\ shards = <<>>
    /\ writer = <<>>
    /\ readers = <<>>
    /\ InitThreads
    /\ track = FALSE

\* ------------------------------------------------------------------------
\* GetShard and the shard locks
\* ------------------------------------------------------------------------
\* m.shards[uint(m.sharding(key)) % uint(SHARD_COUNT)]: the shard's position in
\* m.shards (from 1), or the run-time panic the expression raises
GetShard(key) ==
    IF sharding = "nil" THEN [panic |-> "nil dereference", sh |-> 0]
    ELSE IF shardCount = 0 THEN [panic |-> "divide by zero", sh |-> 0]
    ELSE LET i == ModU32(fnv32(key), shardCount)
         IN  IF i >= Len(shards) THEN [panic |-> "index out of range", sh |-> 0]
             ELSE [panic |-> "none", sh |-> i + 1]

\* (mutant) Lock does not wait for the readers
CanLockNoReaders(s) == writer[s] = None
\* (mutant) Lock does not wait for another writer
CanLockShared(s) == readers[s] = {}
\* (mutant) one lock for the whole map instead of one per shard
CanLockGlobal(s) ==
    \A x \in 1..Len(shards) : writer[x] = None /\ readers[x] = {}
\* sync.RWMutex
CanLock(s) == writer[s] = None /\ readers[s] = {}
CanRLock(s) == writer[s] = None

Running == panic = "none"

\* a call ends: its frame is dropped and the thread is ready for its next call
Return(t) ==
    /\ pc' = [pc EXCEPT ![t] = "idle"]
    /\ op' = [op EXCEPT ![t] = NoOp]
    /\ loc' = [loc EXCEPT ![t] = NoLoc]
    /\ res' = [res EXCEPT ![t] = NoRes]
    /\ bulk' = [bulk EXCEPT ![t] = NoBulk]
    /\ pre' = [pre EXCEPT ![t] = NoRes]

\* ------------------------------------------------------------------------
\* Ghost bookkeeping of the writes that take effect
\* ------------------------------------------------------------------------
\* a write takes effect on a key whose history is h.  kind: "set" (Set, MSet),
\* "sia" (SetIfAbsent), "ups1" (Upsert with value 1 and the adding callback),
\* "ups" (any other Upsert), "pop" (Pop of a present key), "del" (any other
\* deletion of a present key).  r: the value stored.
\*   wins: SetIfAbsent calls that stored since the key was last deleted
\*   pops: Pop calls that found the key since it was last stored
\*   pure: only "ups1" writes so far; then n counts them and rets collects
\*         the values they returned
Note(h, kind, r) ==
    LET pur == h.pure /\ kind = "ups1"
    IN  [wins |-> IF kind \in {"del", "pop"} THEN 0
                  ELSE h.wins + (IF kind = "sia" THEN 1 ELSE 0),
         pops |-> IF kind = "pop" THEN h.pops + 1
                  ELSE IF kind = "del" THEN h.pops ELSE 0,
         pure |-> pur,
         n |-> IF pur THEN h.n + 1 ELSE 0,
         rets |-> IF pur THEN h.rets \cup {r} ELSE {}]

Record(k, kind, r) ==
    hist' = IF track THEN [hist EXCEPT ![k] = Note(@, kind, r)] ELSE hist

\* a write by thread t takes effect on key k of shard s and leaves the map
\* with the content g: the Clear, Count and IterCb calls in flight take note
Watch(t, k, s, stored, g) ==
    bulk' = IF ~track THEN bulk
            ELSE [u \in Threads |->
                    IF pc[u] = "idle" THEN bulk[u]
                    ELSE IF op[u].name = "Clear"
                    THEN IF /\ stored
                            /\ u # t
                            /\ s \in DOMAIN bulk[u].task
                            /\ bulk[u].task[s] # "rlock"
                         THEN [bulk[u] EXCEPT !.late = @ \cup {k}]
                         ELSE bulk[u]
                    ELSE IF op[u].name \in {"Count", "IsEmpty"}
                    THEN [bulk[u] EXCEPT !.sizes = @ \cup {Cardinality(DOMAIN g)}]
                    ELSE IF \/ op[u].name \in {"IterCb", "Keys"}
                            \/ /\ op[u].name \in {"Iter", "IterBuffered"}
                               /\ pc[u] = "snap_wait"
                    THEN [bulk[u] EXCEPT !.states = @ \cup {g}]
                    ELSE bulk[u]]

\* ------------------------------------------------------------------------
\* The calls a thread can make
\* ------------------------------------------------------------------------
KeyOp(name, k, v, cb) == [NoOp EXCEPT !.name = name, !.key = k, !.val = v, !.cb = cb]

UpsertCbs == {"add"}            \* exist ? valueInMap + newValue : newValue
RemoveCbs == {"yes", "no"}      \* always true, always false
\* callbacks whose result depends on what they are passed: v == 1, !exists
RemoveCbsArg == {"ifone", "ifabsent"}
\* callbacks that call the map they are called from before they return (the
\* sum for Upsert, true for RemoveCb): m.Get(inner), m.Set(inner, 1), m.Count()
ReentrantCbs == {"callsGet", "callsSet", "callsCount"}

\* the maps passed to MSet: two keys, one value
MSetData ==
    { [k \in S |-> v] : S \in { T \in SUBSET Keys : Cardinality(T) = 2 }, v \in Vals }

OpsNamed(name) ==
    CASE name \in {"Set", "SetIfAbsent"} ->
            { KeyOp(name, k, v, "none") : k \in Keys, v \in Vals }
      [] name = "Upsert" ->
            { KeyOp(name, k, v, cb) : k \in Keys, v \in Vals, cb \in UpsertCbs }
      [] name = "RemoveCb" ->
            { KeyOp(name, k, ZeroVal, cb) : k \in Keys, cb \in RemoveCbs }
      [] name \in {"Get", "Has", "Remove", "Pop"} ->
            { KeyOp(name, k, ZeroVal, "none") : k \in Keys }
      [] name = "MSet" ->
            { [NoOp EXCEPT !.name = "MSet", !.data = d] : d \in MSetData }
      [] OTHER -> { [NoOp EXCEPT !.name = name] }

WriteOps == {"Set", "Upsert", "SetIfAbsent", "Remove", "RemoveCb", "Pop"}
ReadOps == {"Get", "Has"}
KeyedOps == WriteOps \cup ReadOps

\* type UpsertCb func(exist bool, valueInMap V, newValue V) V
UpsertCb(cb, exist, valueInMap, newValue) ==
    IF exist THEN valueInMap + newValue ELSE newValue

\* type RemoveCb func(key K, v V, exists bool) bool
RemoveCb(cb, key, v, exists) ==
    CASE cb = "ifone" -> v = 1
      [] cb = "ifabsent" -> ~exists
      [] cb \in ReentrantCbs -> TRUE
      [] OTHER -> cb = "yes"

\* the first statement of the critical section of each write
BodyOf(name) ==
    CASE name \in {"Set", "MSet"} -> "set"
      [] name = "Upsert" -> "upsert_read"
      [] name = "SetIfAbsent" -> "sia_test"
      [] name = "Remove" -> "remove"
      [] name = "RemoveCb" -> "removecb_call"
      [] name = "Pop" -> "pop_read"
      [] name = "Clear" -> "remove"

Abort(t, what) ==
    /\ panic' = what
    /\ pc' = [pc EXCEPT ![t] = "panicked"]

\* shard := m.GetShard(key), for the key k of thread t's call
Route(t, k, v, rest, next) ==
    LET g == GetShard(k)
    IN  IF g.panic # "none"
        THEN Abort(t, g.panic) /\ UNCHANGED loc
        ELSE /\ loc' = [loc EXCEPT ![t] = [NoLoc EXCEPT !.key = k, !.val = v,
                                                        !.sh = g.sh,
                                                        !.pending = rest]]
             /\ pc' = [pc EXCEPT ![t] = next]
             /\ UNCHANGED panic

Begin(t, o) ==
    /\ Running
    /\ pc[t] = "idle"
    /\ left[t] > 0
    /\ op' = [op EXCEPT ![t] = o]
    /\ left' = [left EXCEPT ![t] = @ - 1]

\* a thread calls Set, Upsert, SetIfAbsent, Remove, RemoveCb, Pop, Get or Has
CallKeyed(t, names) ==
    \E o \in UNION { OpsNamed(n) : n \in names \cap KeyedOps } :
        /\ Begin(t, o)
        /\ Route(t, o.key, o.val, {},
                 IF o.name \in ReadOps THEN "rlock" ELSE "lock")
        /\ UNCHANGED <<cfgVars, kept, mapVars, res, bulk, ghostVars>>

\* a thread calls MSet(data)
CallMSet(t) ==
    \E o \in OpsNamed("MSet") :
        /\ Begin(t, o)
        /\ pc' = [pc EXCEPT ![t] = "mset"]
        /\ loc' = [loc EXCEPT ![t] = [NoLoc EXCEPT !.pending = DOMAIN o.data]]
        /\ UNCHANGED <<cfgVars, kept, mapVars, panic, res, bulk, ghostVars>>

\* MSet: for key, value := range data { shard := m.GetShard(key) ...
MSetNext(t) ==
    /\ Running
    /\ pc[t] = "mset"
    /\ IF loc[t].pending = {}
       THEN Return(t) /\ UNCHANGED panic
       ELSE /\ \E k \in loc[t].pending :
                   Route(t, k, op[t].data[k], loc[t].pending \ {k}, "lock")
            /\ UNCHANGED <<op, res, bulk, pre>>
    /\ UNCHANGED <<cfgVars, kept, mapVars, left, abs, hist, track, last>>

\* shard.Lock()
Lock(t) ==
    /\ Running
    /\ pc[t] = "lock"
    /\ CanLock(loc[t].sh)
    /\ writer' = [writer EXCEPT ![loc[t].sh] = G(t)]
    /\ pc' = [pc EXCEPT ![t] = BodyOf(op[t].name)]
    /\ UNCHANGED <<cfgVars, kept, shards, readers, panic, op, loc, res, left, bulk, ghostVars>>

\* shard.Unlock(), and the return (or MSet's next pair, or Clear's next item)
Unlock(t) ==
    /\ Running
    /\ pc[t] = "unlock"
    /\ writer' = [writer EXCEPT ![loc[t].sh] = None]
    /\ IF op[t].name \in {"MSet", "Clear"}
       THEN /\ pc' = [pc EXCEPT ![t] = IF op[t].name = "MSet" THEN "mset" ELSE "range"]
            /\ UNCHANGED <<op, loc, res, bulk, pre>>
       ELSE Return(t)
    /\ UNCHANGED <<cfgVars, kept, shards, readers, panic, left, abs, hist, track, last>>

\* shard.RLock()
RLock(t) ==
    /\ Running
    /\ pc[t] = "rlock"
    /\ CanRLock(loc[t].sh)
    /\ readers' = [readers EXCEPT ![loc[t].sh] = @ \cup {G(t)}]
    /\ pc' = [pc EXCEPT ![t] = IF op[t].name = "Get" THEN "get" ELSE "has"]
    /\ UNCHANGED <<cfgVars, kept, shards, writer, panic, op, loc, res, left, bulk, ghostVars>>

\* shard.RUnlock(), and the return
RUnlock(t) ==
    /\ Running
    /\ pc[t] = "runlock"
    /\ readers' = [readers EXCEPT ![loc[t].sh] = @ \ {G(t)}]
    /\ Return(t)
    /\ UNCHANGED <<cfgVars, kept, shards, writer, panic, left, abs, hist, track, last>>

\* the statements of a critical section: thread t at `at`, going to `next`
At(t, at, next) ==
    /\ Running
    /\ pc[t] = at
    /\ pc' = [pc EXCEPT ![t] = next]
    /\ UNCHANGED <<cfgVars, kept, writer, readers, panic, op, left, track, last>>

Items(t) == shards[loc[t].sh]

\* shard.items[key] = v takes effect
StoreEffect(t, v, kind) ==
    /\ shards' = [shards EXCEPT ![loc[t].sh] = Store(@, loc[t].key, v)]
    /\ abs' = GhostStore(abs, loc[t].key, v)
    /\ Record(loc[t].key, kind, v)
    /\ Watch(t, loc[t].key, loc[t].sh, TRUE, GhostStore(abs, loc[t].key, v))

\* delete(shard.items, key) takes effect
DeleteEffect(t, kind) ==
    /\ shards' = [shards EXCEPT ![loc[t].sh] = Delete(@, loc[t].key)]
    /\ abs' = GhostDelete(abs, loc[t].key)
    /\ Watch(t, loc[t].key, loc[t].sh, FALSE, GhostDelete(abs, loc[t].key))
    /\ IF Has(Items(t), loc[t].key)
       THEN Record(loc[t].key, kind, ZeroVal)
       ELSE UNCHANGED hist

\* v, ok := shard.items[key]; Upsert and RemoveCb then call their callback
ReadItem(t) ==
    LET l == Lookup(Items(t), loc[t].key)
    IN  /\ loc' = [loc EXCEPT ![t].v = l.v, ![t].ok = l.ok,
                              ![t].args = IF op[t].name \in {"Upsert", "RemoveCb"}
                                          THEN Append(@, <<loc[t].key, l.v, l.ok>>)
                                          ELSE @]
        /\ pre' = [pre EXCEPT ![t] = GhostLookup(abs, loc[t].key)]
        /\ UNCHANGED <<shards, abs, hist, bulk>>

\* Set, MSet: shard.items[key] = value
Set(t) ==
    /\ At(t, "set", "unlock")
    /\ StoreEffect(t, loc[t].val, "set")
    /\ UNCHANGED <<loc, res, pre>>

\* Upsert: v, ok := shard.items[key]; res = cb(ok, v, value)
UpsertRead(t) ==
    /\ op[t].cb \notin ReentrantCbs
    /\ At(t, "upsert_read", "upsert_store")
    /\ ReadItem(t)
    /\ LET l == Lookup(Items(t), loc[t].key)
       IN  res' = [res EXCEPT ![t] =
                      [v |-> UpsertCb(op[t].cb, l.ok, l.v, loc[t].val), ok |-> l.ok]]

\* Upsert: shard.items[key] = res
UpsertStore(t) ==
    /\ At(t, "upsert_store", "unlock")
    /\ StoreEffect(t, res[t].v,
                   IF op[t].val = 1 /\ op[t].cb = "add" THEN "ups1" ELSE "ups")
    /\ UNCHANGED <<loc, res, pre>>

\* SetIfAbsent: _, ok := shard.items[key]
SetIfAbsentTest(t) ==
    /\ At(t, "sia_test", "sia_store")
    /\ ReadItem(t)
    /\ res' = [res EXCEPT ![t] = [v |-> ZeroVal, ok |-> ~Has(Items(t), loc[t].key)]]

\* SetIfAbsent: if !ok { shard.items[key] = value }
SetIfAbsentStore(t) ==
    /\ At(t, "sia_store", "unlock")
    /\ IF ~loc[t].ok
       THEN StoreEffect(t, loc[t].val, "sia")
       ELSE UNCHANGED <<shards, abs, hist, bulk>>
    /\ UNCHANGED <<loc, res, pre>>

\* Get: val, ok := shard.items[key]
Get(t) ==
    /\ At(t, "get", "runlock")
    /\ ReadItem(t)
    /\ res' = [res EXCEPT ![t] = Lookup(Items(t), loc[t].key)]

\* Has: _, ok := shard.items[key]
HasKey(t) ==
    /\ At(t, "has", "runlock")
    /\ ReadItem(t)
    /\ res' = [res EXCEPT ![t] = [v |-> ZeroVal, ok |-> Has(Items(t), loc[t].key)]]

\* Remove: delete(shard.items, key)
Remove(t) ==
    /\ At(t, "remove", "unlock")
    /\ DeleteEffect(t, "del")
    /\ UNCHANGED <<loc, res, pre>>

\* RemoveCb: v, ok := shard.items[key]; remove := cb(key, v, ok)
RemoveCbCall(t) ==
    /\ op[t].cb \notin ReentrantCbs
    /\ At(t, "removecb_call", "removecb_delete")
    /\ ReadItem(t)
    /\ LET l == Lookup(Items(t), loc[t].key)
       IN  res' = [res EXCEPT ![t] =
                      [v |-> ZeroVal, ok |-> RemoveCb(op[t].cb, loc[t].key, l.v, l.ok)]]

\* RemoveCb: if remove && ok { delete(shard.items, key) }
RemoveCbDelete(t) ==
    /\ At(t, "removecb_delete", "unlock")
    /\ IF res[t].ok /\ loc[t].ok
       THEN DeleteEffect(t, "del")
       ELSE UNCHANGED <<shards, abs, hist, bulk>>
    /\ UNCHANGED <<loc, res, pre>>

\* Pop: v, exists = shard.items[key]
PopRead(t) ==
    /\ At(t, "pop_read", "pop_delete")
    /\ ReadItem(t)
    /\ res' = [res EXCEPT ![t] = Lookup(Items(t), loc[t].key)]

\* Pop: delete(shard.items, key)
PopDelete(t) ==
    /\ At(t, "pop_delete", "unlock")
    /\ DeleteEffect(t, "pop")
    /\ UNCHANGED <<loc, res, pre>>

\* every step of a keyed call after its entry
KeyedStep(t) ==
    \/ Lock(t) \/ Unlock(t) \/ RLock(t) \/ RUnlock(t)
    \/ Set(t)
    \/ UpsertRead(t) \/ UpsertStore(t)
    \/ SetIfAbsentTest(t) \/ SetIfAbsentStore(t)
    \/ Get(t) \/ HasKey(t)
    \/ Remove(t)
    \/ RemoveCbCall(t) \/ RemoveCbDelete(t)
    \/ PopRead(t) \/ PopDelete(t)

\* ------------------------------------------------------------------------
\* Upsert and RemoveCb with a callback that calls the map
\* ------------------------------------------------------------------------
\* v, ok := shard.items[key]; cb(...) is called and begins its own call of the
\* map: Get and Set route their key, Count starts its loop
CbCall(t) ==
    /\ op[t].cb \in ReentrantCbs
    /\ pc[t] \in {"upsert_read", "removecb_call"}
    /\ LET l == Lookup(Items(t), loc[t].key)
           g == GetShard(op[t].inner)
       IN  /\ At(t, pc[t], CASE op[t].cb = "callsGet" -> "cb_rlock"
                             [] op[t].cb = "callsSet" -> "cb_lock"
                             [] op[t].cb = "callsCount" -> "cb_count")
           /\ g.panic = "none"
           /\ loc' = [loc EXCEPT ![t].v = l.v, ![t].ok = l.ok,
                                 ![t].args = Append(@, <<loc[t].key, l.v, l.ok>>),
                                 ![t].in = IF op[t].cb = "callsCount" THEN 0 ELSE g.sh]
    /\ pre' = [pre EXCEPT ![t] = GhostLookup(abs, loc[t].key)]
    /\ UNCHANGED <<shards, abs, hist, bulk, res>>

\* in the callback, Get: shard.RLock()
CbRLock(t) ==
    /\ Running
    /\ pc[t] = "cb_rlock"
    /\ CanRLock(loc[t].in)
    /\ readers' = [readers EXCEPT ![loc[t].in] = @ \cup {G(t)}]
    /\ pc' = [pc EXCEPT ![t] = "cb_runlock"]
    /\ UNCHANGED <<cfgVars, kept, shards, writer, panic, op, loc, res, left, bulk, ghostVars>>

\* in the callback, Get: val, ok := shard.items[key]; shard.RUnlock(); return
CbRUnlock(t) ==
    /\ Running
    /\ pc[t] = "cb_runlock"
    /\ readers' = [readers EXCEPT ![loc[t].in] = @ \ {G(t)}]
    /\ pc' = [pc EXCEPT ![t] = "cb_ret"]
    /\ UNCHANGED <<cfgVars, kept, shards, writer, panic, op, loc, res, left, bulk, ghostVars>>

\* in the callback, Set: shard.Lock()
CbLock(t) ==
    /\ Running
    /\ pc[t] = "cb_lock"
    /\ CanLock(loc[t].in)
    /\ writer' = [writer EXCEPT ![loc[t].in] = G(t)]
    /\ pc' = [pc EXCEPT ![t] = "cb_unlock"]
    /\ UNCHANGED <<cfgVars, kept, shards, readers, panic, op, loc, res, left, bulk, ghostVars>>

\* in the callback, Set: shard.items[key] = value; shard.Unlock(); return
CbUnlock(t) ==
    /\ Running
    /\ pc[t] = "cb_unlock"
    /\ writer' = [writer EXCEPT ![loc[t].in] = None]
    /\ shards' = [shards EXCEPT ![loc[t].in] = Store(@, op[t].inner, 1)]
    /\ abs' = GhostStore(abs, op[t].inner, 1)
    /\ Record(op[t].inner, "set", 1)
    /\ pc' = [pc EXCEPT ![t] = "cb_ret"]
    /\ UNCHANGED <<cfgVars, kept, readers, panic, op, loc, res, left, bulk, pre, track, last>>

\* in the callback, Count: for i := 0; i < SHARD_COUNT; i++ { shard.RLock()
CbCountNext(t) ==
    /\ Running
    /\ pc[t] = "cb_count"
    /\ IF loc[t].in >= shardCount
       THEN /\ pc' = [pc EXCEPT ![t] = "cb_ret"]
            /\ UNCHANGED readers
       ELSE /\ loc[t].in < Len(shards)
            /\ CanRLock(loc[t].in + 1)
            /\ readers' = [readers EXCEPT ![loc[t].in + 1] = @ \cup {G(t)}]
            /\ pc' = [pc EXCEPT ![t] = "cb_count_len"]
    /\ UNCHANGED <<cfgVars, kept, shards, writer, panic, op, loc, res, left, bulk, ghostVars>>

\* in the callback, Count: count += len(shard.items); shard.RUnlock()
CbCountLen(t) ==
    /\ Running
    /\ pc[t] = "cb_count_len"
    /\ readers' = [readers EXCEPT ![loc[t].in + 1] = @ \ {G(t)}]
    /\ loc' = [loc EXCEPT ![t].in = @ + 1]
    /\ pc' = [pc EXCEPT ![t] = "cb_count"]
    /\ UNCHANGED <<cfgVars, kept, shards, writer, panic, op, res, left, bulk, ghostVars>>

\* the callback returns: res = cb(ok, v, value), remove := cb(key, v, ok)
CbReturn(t) ==
    /\ At(t, "cb_ret", IF op[t].name = "Upsert" THEN "upsert_store"
                       ELSE "removecb_delete")
    /\ res' = [res EXCEPT ![t] =
                  IF op[t].name = "Upsert"
                  THEN [v |-> UpsertCb(op[t].cb, loc[t].ok, loc[t].v, loc[t].val),
                        ok |-> loc[t].ok]
                  ELSE [v |-> ZeroVal,
                        ok |-> RemoveCb(op[t].cb, loc[t].key, loc[t].v, loc[t].ok)]]
    /\ UNCHANGED <<shards, abs, hist, bulk, loc, pre>>

CbStep(t) ==
    \/ CbCall(t)
    \/ CbRLock(t) \/ CbRUnlock(t)
    \/ CbLock(t) \/ CbUnlock(t)
    \/ CbCountNext(t) \/ CbCountLen(t)
    \/ CbReturn(t)

\* ------------------------------------------------------------------------
\* Count, IsEmpty
\* ------------------------------------------------------------------------
\* every other thread has made all its calls
Quiet(t) == \A u \in Threads \ {t} : pc[u] = "idle" /\ left[u] = 0

\* a thread calls Count() or IsEmpty()
CallCount(t) ==
    \E o \in OpsNamed("Count") \cup OpsNamed("IsEmpty") :
        /\ Begin(t, o)
        /\ pc' = [pc EXCEPT ![t] = "count"]
        /\ bulk' = [bulk EXCEPT ![t] =
                       [NoBulk EXCEPT !.quiet = Quiet(t),
                                      !.sizes = IF track
                                                THEN {Cardinality(DOMAIN abs)}
                                                ELSE {}]]
        /\ UNCHANGED <<cfgVars, kept, mapVars, panic, loc, res, ghostVars>>

\* (mutant) Count goes on to the next shard without RUnlock
CountKeep(rs, g) == rs
\* Count: shard.RUnlock()
CountRelease(rs, g) == rs \ {g}

\* Count: for i := 0; i < SHARD_COUNT; i++ { shard := m.shards[i]; shard.RLock()
CountNext(t) ==
    /\ Running
    /\ pc[t] = "count"
    /\ IF bulk[t].i >= shardCount
       THEN /\ pc' = [pc EXCEPT ![t] = IF op[t].name = "Keys" THEN "keys_make"
                                       ELSE "count_ret"]
            /\ res' = [res EXCEPT ![t] = [v |-> bulk[t].count,
                                          ok |-> bulk[t].count = 0]]
            /\ UNCHANGED <<readers, panic>>
       ELSE IF bulk[t].i >= Len(shards)
       THEN Abort(t, "index out of range") /\ UNCHANGED <<readers, res>>
       ELSE /\ CanRLock(bulk[t].i + 1)
            /\ readers' = [readers EXCEPT ![bulk[t].i + 1] = @ \cup {G(t)}]
            /\ pc' = [pc EXCEPT ![t] = "count_len"]
            /\ UNCHANGED <<panic, res>>
    /\ UNCHANGED <<cfgVars, kept, shards, writer, op, loc, left, bulk, ghostVars>>

\* Count: count += len(shard.items); shard.RUnlock()
CountLen(t) ==
    /\ Running
    /\ pc[t] = "count_len"
    /\ bulk' = [bulk EXCEPT ![t].count = @ + Cardinality(DOMAIN shards[bulk[t].i + 1]),
                            ![t].i = @ + 1]
    /\ readers' = [readers EXCEPT ![bulk[t].i + 1] = CountRelease(@, G(t))]
    /\ pc' = [pc EXCEPT ![t] = "count"]
    /\ UNCHANGED <<cfgVars, kept, shards, writer, panic, op, loc, res, left, ghostVars>>

\* Count: return count;  IsEmpty: return m.Count() == 0
CountReturn(t) ==
    /\ Running
    /\ pc[t] = "count_ret"
    /\ Return(t)
    /\ UNCHANGED <<cfgVars, kept, mapVars, panic, left, abs, hist, track, last>>

CountStep(t) == CountNext(t) \/ CountLen(t) \/ CountReturn(t)

\* ------------------------------------------------------------------------
\* snapshot, fanIn and their consumers: Iter, IterBuffered, Items, Clear,
\* MarshalJSON
\* ------------------------------------------------------------------------
SnapshotOps == {"Iter", "IterBuffered", "Items", "Clear", "MarshalJSON"}

Tasks(t) == DOMAIN bulk[t].task

\* the keys a range loop over items has still to visit
Unvisited(items, seen) == (DOMAIN items) \ { x[1] : x \in seen }

\* the map a set of tuples makes
AsMap(tuples) ==
    [k \in { x[1] : x \in tuples } |-> (CHOOSE x \in tuples : x[1] = k)[2]]

RECURSIVE SumCap(_, _)
\* total += cap(c), for the first n channels
SumCap(chans, n) == IF n = 0 THEN 0 ELSE chans[n].cap + SumCap(chans, n - 1)

\* snapshot(m) begins for the call o of thread t: the panic on no shards,
\* chans, wg.Add(SHARD_COUNT), one goroutine per shard
StartSnapshot(t, o) ==
        /\ Begin(t, o)
        /\ IF Len(shards) = 0
           THEN Abort(t, "not initialized") /\ UNCHANGED bulk
           ELSE /\ bulk' = [bulk EXCEPT ![t] =
                       [NoBulk EXCEPT !.chans = [i \in 1..shardCount |-> NilChan],
                                      !.wg = shardCount,
                                      !.task = [i \in 1..Len(shards) |-> "rlock"],
                                      !.seen = [i \in 1..Len(shards) |-> {}],
                                      !.at = [i \in 1..Len(shards) |-> EmptyMap],
                                      !.quiet = Quiet(t),
                                      !.states =
                                          IF track /\ o.name \in {"Iter", "IterBuffered"}
                                          THEN {abs} ELSE {}]]
                /\ pc' = [pc EXCEPT ![t] = "snap_wait"]
                /\ UNCHANGED panic
        /\ UNCHANGED <<cfgVars, mapVars, loc, res, ghostVars>>

\* a thread calls one of the snapshot's consumers
CallSnapshot(t, names) ==
    \E o \in UNION { OpsNamed(n) : n \in names \cap SnapshotOps } :
        /\ StartSnapshot(t, o)
        /\ UNCHANGED kept

\* the goroutine's tuples all fit the channel made for them
Fits(ch) == Len(ch.buf) < ch.cap

\* snapshot's goroutine for shard i: shard.RLock();
\* chans[index] = make(chan Tuple, len(shard.items)); wg.Done()
TaskRLock(t, i) ==
    /\ Running
    /\ op[t].name \in SnapshotOps
    /\ i \in Tasks(t)
    /\ bulk[t].task[i] = "rlock"
    /\ CanRLock(i)
    /\ readers' = [readers EXCEPT ![i] = @ \cup {<<t, i>>}]
    /\ IF i > Len(bulk[t].chans)
       THEN /\ panic' = "index out of range"
            /\ UNCHANGED bulk
       ELSE IF bulk[t].wg = 0
       THEN /\ panic' = "negative WaitGroup counter"
            /\ UNCHANGED bulk
       ELSE /\ bulk' = [bulk EXCEPT
                           ![t].chans[i] = MakeChan(Cardinality(DOMAIN shards[i])),
                           ![t].wg = @ - 1,
                           ![t].task[i] = "send",
                           ![t].at[i] = shards[i]]
            /\ UNCHANGED panic
    /\ UNCHANGED <<cfgVars, kept, shards, writer, pc, op, loc, res, left, ghostVars>>

\* for key, val := range shard.items { chans[index] <- Tuple{key, val} }
TaskSend(t, i) ==
    /\ Running
    /\ op[t].name \in SnapshotOps
    /\ i \in Tasks(t)
    /\ bulk[t].task[i] = "send"
    /\ Fits(bulk[t].chans[i])
    /\ \E k \in Unvisited(shards[i], bulk[t].seen[i]) :
          bulk' = [bulk EXCEPT ![t].chans[i].buf = Append(@, <<k, shards[i][k]>>),
                               ![t].seen[i] = @ \cup {<<k, shards[i][k]>>}]
    /\ UNCHANGED <<cfgVars, kept, mapVars, panic, pc, op, loc, res, left, ghostVars>>

\* the range loop is over: shard.RUnlock(); close(chans[index])
TaskClose(t, i) ==
    /\ Running
    /\ op[t].name \in SnapshotOps
    /\ i \in Tasks(t)
    /\ bulk[t].task[i] = "send"
    /\ Unvisited(shards[i], bulk[t].seen[i]) = {}
    /\ readers' = [readers EXCEPT ![i] = @ \ {<<t, i>>}]
    /\ bulk' = [bulk EXCEPT ![t].chans[i].closed = TRUE, ![t].task[i] = "done"]
    /\ UNCHANGED <<cfgVars, kept, shards, writer, panic, pc, op, loc, res, left, ghostVars>>

\* snapshot: wg.Wait(); return chans.  Iter: ch := make(chan Tuple);
\* IterBuffered: ch := make(chan Tuple, total).  go fanIn(chans, ch)
SnapshotReturn(t) ==
    /\ Running
    /\ pc[t] = "snap_wait"
    /\ bulk[t].wg = 0
    /\ bulk' = [bulk EXCEPT
                   ![t].out = MakeChan(IF op[t].name = "Iter" THEN 0
                                       ELSE SumCap(bulk[t].chans, Len(bulk[t].chans))),
                   ![t].fan = [i \in 1..Len(bulk[t].chans) |-> "recv"]]
    /\ pc' = [pc EXCEPT ![t] = "range"]
    /\ UNCHANGED <<cfgVars, kept, mapVars, panic, op, loc, res, left, ghostVars>>

\* fanIn's goroutine for channel i: for t := range ch { out <- t }.  A send
\* on the unbuffered channel of Iter is the consumer's receive.
FanIn(t, i) ==
    /\ Running
    /\ i \in DOMAIN bulk[t].fan
    /\ bulk[t].fan[i] = "recv"
    /\ bulk[t].chans[i].buf # <<>>
    /\ LET x == Head(bulk[t].chans[i].buf)
       IN  IF bulk[t].out.cap = 0
           THEN /\ pc[t] = "range"
                /\ bulk' = [bulk EXCEPT ![t].chans[i].buf = Tail(@),
                                        ![t].tmp = Store(@, x[1], x[2]),
                                        ![t].got = IF track THEN Append(@, x) ELSE @]
           ELSE /\ Fits(bulk[t].out)
                /\ bulk' = [bulk EXCEPT ![t].chans[i].buf = Tail(@),
                                        ![t].out.buf = Append(@, x)]
    /\ UNCHANGED <<cfgVars, kept, mapVars, panic, pc, op, loc, res, left, ghostVars>>

\* fanIn's goroutine for channel i: the channel is closed and drained: wg.Done()
FanInDone(t, i) ==
    /\ Running
    /\ i \in DOMAIN bulk[t].fan
    /\ bulk[t].fan[i] = "recv"
    /\ bulk[t].chans[i].buf = <<>>
    /\ bulk[t].chans[i].closed
    /\ bulk' = [bulk EXCEPT ![t].fan[i] = "done"]
    /\ UNCHANGED <<cfgVars, kept, mapVars, panic, pc, op, loc, res, left, ghostVars>>

\* fanIn: wg.Wait(); close(out)
FanInClose(t) ==
    /\ Running
    /\ op[t].name \in SnapshotOps
    /\ bulk[t].out.made
    /\ ~bulk[t].out.closed
    /\ \A i \in DOMAIN bulk[t].fan : bulk[t].fan[i] = "done"
    /\ bulk' = [bulk EXCEPT ![t].out.closed = TRUE]
    /\ UNCHANGED <<cfgVars, kept, mapVars, panic, pc, op, loc, res, left, ghostVars>>

\* the consumer: for item := range ch.  Items, MarshalJSON (and the caller of
\* Iter or IterBuffered): tmp[item.Key] = item.Val;  Clear: m.Remove(item.Key)
Range(t) ==
    /\ Running
    /\ pc[t] = "range"
    /\ IF bulk[t].out.buf # <<>>
       THEN LET x == Head(bulk[t].out.buf)
            IN  IF op[t].name = "Clear"
                THEN /\ bulk' = [bulk EXCEPT ![t].out.buf = Tail(@)]
                     /\ Route(t, x[1], ZeroVal, {}, "lock")
                ELSE /\ bulk' = [bulk EXCEPT ![t].out.buf = Tail(@),
                                             ![t].tmp = Store(@, x[1], x[2]),
                                             ![t].got = IF track THEN Append(@, x) ELSE @]
                     /\ UNCHANGED <<pc, loc, panic>>
       ELSE /\ bulk[t].out.closed
            /\ pc' = [pc EXCEPT ![t] = "bulk_ret"]
            /\ UNCHANGED <<bulk, loc, panic>>
    /\ UNCHANGED <<cfgVars, kept, mapVars, op, res, left, ghostVars>>

\* the bulk call returns
BulkReturn(t) ==
    /\ Running
    /\ pc[t] = "bulk_ret"
    /\ Return(t)
    /\ UNCHANGED <<cfgVars, kept, mapVars, panic, left, abs, hist, track, last>>

\* the goroutines of thread t's snapshot and fanIn
SnapshotRLock(t) == \E i \in Tasks(t) : TaskRLock(t, i)
SnapshotSend(t) == \E i \in Tasks(t) : TaskSend(t, i)
SnapshotClose(t) == \E i \in Tasks(t) : TaskClose(t, i)
FanInMove(t) == \E i \in DOMAIN bulk[t].fan : FanIn(t, i)
FanInEnd(t) == \E i \in DOMAIN bulk[t].fan : FanInDone(t, i)

SnapshotStep(t) ==
    \/ SnapshotRLock(t) \/ SnapshotSend(t) \/ SnapshotClose(t)
    \/ SnapshotReturn(t)
    \/ FanInMove(t) \/ FanInEnd(t) \/ FanInClose(t)
    \/ Range(t)
    \/ BulkReturn(t)

\* ------------------------------------------------------------------------
\* MarshalJSON and UnmarshalJSON: json.Marshal and json.Unmarshal of a
\* map[string]int, byte by byte
\* ------------------------------------------------------------------------
RECURSIVE Less(_, _)
\* a < b for strings: byte by byte, a prefix first
Less(a, b) ==
    IF a = <<>> THEN b # <<>>
    ELSE IF b = <<>> THEN FALSE
    ELSE IF a[1] # b[1] THEN a[1] < b[1]
    ELSE Less(Tail(a), Tail(b))

RECURSIVE Sorted(_)
\* json.Marshal writes a map's keys in sorted order
Sorted(S) ==
    IF S = {} THEN <<>>
    ELSE LET m == CHOOSE x \in S : \A y \in S \ {x} : Less(x, y)
         IN  <<m>> \o Sorted(S \ {m})

\* one byte of a string as json.Marshal writes it: the quote and the
\* backslash escaped, a byte that is not valid UTF-8 (here: any byte of 128
\* or more, the keys being single bytes) replaced by the six bytes �
EscByte(c) ==
    IF c >= 128 THEN <<92, 117, 102, 102, 102, 100>>
    ELSE IF c \in {34, 92} THEN <<92, c>>
    ELSE <<c>>

RECURSIVE EncString(_)
EncString(str) ==
    IF str = <<>> THEN <<>> ELSE EscByte(str[1]) \o EncString(Tail(str))

RECURSIVE Itoa(_)
\* an int in decimal digits
Itoa(n) == IF n < 10 THEN <<48 + n>> ELSE Itoa(n \div 10) \o <<48 + (n % 10)>>

RECURSIVE EncPairs(_, _)
\* "key":value, separated by commas
EncPairs(tmp, ks) ==
    IF ks = <<>> THEN <<>>
    ELSE <<34>> \o EncString(ks[1]) \o <<34, 58>> \o Itoa(tmp[ks[1]])
            \o (IF Len(ks) > 1 THEN <<44>> ELSE <<>>)
            \o EncPairs(tmp, Tail(ks))

\* json.Marshal(tmp)
Marshal(tmp) == <<123>> \o EncPairs(tmp, Sorted(DOMAIN tmp)) \o <<125>>

\* the value of a hexadecimal digit
HexVal(c) ==
    IF c \in 48..57 THEN c - 48 ELSE IF c \in 97..102 THEN c - 87 ELSE c - 55

\* the rune of the four hexadecimal digits at b[i..i+3]
Hex4(b, i) ==
    ((HexVal(b[i]) * 16 + HexVal(b[i + 1])) * 16 + HexVal(b[i + 2])) * 16
        + HexVal(b[i + 3])

\* the UTF-8 bytes of a rune below 65536
Utf8(r) ==
    IF r < 128 THEN <<r>>
    ELSE IF r < 2048 THEN <<192 + (r \div 64), 128 + (r % 64)>>
    ELSE <<224 + (r \div 4096), 128 + ((r \div 64) % 64), 128 + (r % 64)>>

RECURSIVE DecString(_, _, _)
\* the string whose first byte is b[i], up to its closing quote; i: the
\* position after the quote
DecString(b, i, acc) ==
    IF i > Len(b) THEN [err |-> TRUE, str |-> acc, i |-> i]
    ELSE IF b[i] = 34 THEN [err |-> FALSE, str |-> acc, i |-> i + 1]
    ELSE IF b[i] = 92
    THEN IF i + 1 > Len(b) THEN [err |-> TRUE, str |-> acc, i |-> i]
         ELSE IF b[i + 1] = 117
         THEN IF i + 5 > Len(b) THEN [err |-> TRUE, str |-> acc, i |-> i]
              ELSE DecString(b, i + 6, acc \o Utf8(Hex4(b, i + 2)))
         ELSE IF b[i + 1] \in {34, 92}
         THEN DecString(b, i + 2, Append(acc, b[i + 1]))
         ELSE [err |-> TRUE, str |-> acc, i |-> i]
    ELSE DecString(b, i + 1, Append(acc, b[i]))

RECURSIVE DecInt(_, _, _)
\* the int whose first digit is b[i]; i: the position after its last digit
DecInt(b, i, acc) ==
    IF i <= Len(b) /\ b[i] \in 48..57
    THEN DecInt(b, i + 1, acc * 10 + (b[i] - 48))
    ELSE [n |-> acc, i |-> i]

RECURSIVE DecPairs(_, _, _)
\* the pairs from b[i] on, stored into tmp one after the other
DecPairs(b, i, tmp) ==
    IF i > Len(b) \/ b[i] # 34 THEN [err |-> TRUE, tmp |-> tmp]
    ELSE LET k == DecString(b, i + 1, <<>>)
         IN  IF k.err \/ k.i + 1 > Len(b) \/ b[k.i] # 58 \/ b[k.i + 1] \notin 48..57
             THEN [err |-> TRUE, tmp |-> tmp]
             ELSE LET v == DecInt(b, k.i + 1, 0)
                      m == Store(tmp, k.str, v.n)
                  IN  IF v.i > Len(b) THEN [err |-> TRUE, tmp |-> m]
                      ELSE IF b[v.i] = 44 THEN DecPairs(b, v.i + 1, m)
                      ELSE IF b[v.i] = 125 /\ v.i = Len(b) THEN [err |-> FALSE, tmp |-> m]
                      ELSE [err |-> TRUE, tmp |-> m]

\* json.Unmarshal(b, &tmp)
Unmarshal(b) ==
    IF Len(b) < 2 \/ b[1] # 123 THEN [err |-> TRUE, tmp |-> EmptyMap]
    ELSE IF b[2] = 125 THEN [err |-> Len(b) # 2, tmp |-> EmptyMap]
    ELSE DecPairs(b, 2, EmptyMap)

\* a thread calls m.MarshalJSON(): m.IterBuffered() begins
CallMarshalJSON(t) ==
    /\ StartSnapshot(t, [NoOp EXCEPT !.name = "MarshalJSON"])
    /\ kept' = [kept EXCEPT ![t] = [NoKept EXCEPT !.src = abs, !.alone = Quiet(t)]]

\* MarshalJSON: return json.Marshal(tmp)
MarshalJSONReturn(t) ==
    /\ Running
    /\ pc[t] = "bulk_ret"
    /\ op[t].name = "MarshalJSON"
    /\ kept' = [kept EXCEPT ![t].has = TRUE, ![t].b = Marshal(bulk[t].tmp)]
    /\ Return(t)
    /\ UNCHANGED <<cfgVars, mapVars, panic, left, abs, hist, track, last>>

\* a thread constructs a map, n := New[int](), and calls n.UnmarshalJSON(b)
\* with the bytes its MarshalJSON returned: json.Unmarshal(b, &tmp)
CallUnmarshalJSON(t) ==
    /\ kept[t].has
    /\ ~kept[t].done
    /\ Begin(t, [NoOp EXCEPT !.name = "UnmarshalJSON"])
    /\ LET d == Unmarshal(kept[t].b)
       IN  /\ bulk' = [bulk EXCEPT ![t] = [NoBulk EXCEPT !.tmp = d.tmp]]
           /\ pc' = [pc EXCEPT ![t] = IF d.err THEN "unmarshal_ret"
                                      ELSE "unmarshal_range"]
    /\ kept' = [kept EXCEPT ![t].n = create(shardCount)]
    /\ UNCHANGED <<cfgVars, mapVars, panic, loc, res, ghostVars>>

\* UnmarshalJSON: for key, val := range tmp { m.Set(key, val) }, in any
\* order; no other goroutine has n, so its locks are free
UnmarshalSet(t) ==
    /\ Running
    /\ pc[t] = "unmarshal_range"
    /\ IF bulk[t].tmp = EmptyMap
       THEN /\ pc' = [pc EXCEPT ![t] = "unmarshal_ret"]
            /\ UNCHANGED <<bulk, kept>>
       ELSE \E k \in DOMAIN bulk[t].tmp :
              /\ GetShard(k).panic = "none"
              /\ kept' = [kept EXCEPT ![t].n[GetShard(k).sh] =
                                          Store(@, k, bulk[t].tmp[k])]
              /\ bulk' = [bulk EXCEPT ![t].tmp = Delete(@, k)]
              /\ UNCHANGED pc
    /\ UNCHANGED <<cfgVars, mapVars, panic, op, loc, res, left, ghostVars>>

\* UnmarshalJSON returns
UnmarshalReturn(t) ==
    /\ Running
    /\ pc[t] = "unmarshal_ret"
    /\ kept' = [kept EXCEPT ![t].done = TRUE]
    /\ Return(t)
    /\ UNCHANGED <<cfgVars, mapVars, panic, left, abs, hist, track, last>>

\* ------------------------------------------------------------------------
\* IterCb
\* ------------------------------------------------------------------------
\* a thread calls IterCb(fn), fn collecting what it is passed
CallIterCb(t) ==
    \E o \in OpsNamed("IterCb") :
        /\ Begin(t, o)
        /\ pc' = [pc EXCEPT ![t] = "itercb"]
        /\ bulk' = [bulk EXCEPT ![t] =
                       [NoBulk EXCEPT !.seen = <<{}>>,
                                      !.quiet = Quiet(t),
                                      !.states = IF track THEN {abs} ELSE {}]]
        /\ UNCHANGED <<cfgVars, kept, mapVars, panic, loc, res, ghostVars>>

\* for idx := range m.shards { shard := (m.shards)[idx]; shard.RLock()
IterCbNext(t) ==
    /\ Running
    /\ pc[t] = "itercb"
    /\ IF bulk[t].i >= Len(shards)
       THEN /\ pc' = [pc EXCEPT ![t] = "bulk_ret"]
            /\ UNCHANGED <<readers, bulk>>
       ELSE /\ CanRLock(bulk[t].i + 1)
            /\ readers' = [readers EXCEPT ![bulk[t].i + 1] = @ \cup {G(t)}]
            /\ bulk' = [bulk EXCEPT ![t].seen = <<{}>>,
                                    ![t].at = Append(@, shards[bulk[t].i + 1])]
            /\ pc' = [pc EXCEPT ![t] = "itercb_fn"]
    /\ UNCHANGED <<cfgVars, kept, shards, writer, panic, op, loc, res, left, ghostVars>>

\* for key, value := range shard.items { fn(key, value) }; shard.RUnlock()
IterCbFn(t) ==
    /\ Running
    /\ pc[t] = "itercb_fn"
    /\ LET s == bulk[t].i + 1
           todo == Unvisited(shards[s], bulk[t].seen[1])
       IN  IF todo # {}
           THEN /\ \E k \in todo :
                      bulk' = [bulk EXCEPT
                                  ![t].seen[1] = @ \cup {<<k, shards[s][k]>>},
                                  ![t].tmp = Store(@, k, shards[s][k])]
                /\ UNCHANGED <<readers, pc>>
           ELSE /\ readers' = [readers EXCEPT ![s] = @ \ {G(t)}]
                /\ bulk' = [bulk EXCEPT ![t].i = @ + 1]
                /\ pc' = [pc EXCEPT ![t] = "itercb"]
    /\ UNCHANGED <<cfgVars, kept, shards, writer, panic, op, loc, res, left, ghostVars>>

IterCbStep(t) == IterCbNext(t) \/ IterCbFn(t)

\* ------------------------------------------------------------------------
\* Keys
\* ------------------------------------------------------------------------
\* a thread calls Keys(): count := m.Count()
CallKeys(t) ==
    \E o \in OpsNamed("Keys") :
        /\ Begin(t, o)
        /\ pc' = [pc EXCEPT ![t] = "count"]
        /\ bulk' = [bulk EXCEPT ![t] =
                       [NoBulk EXCEPT !.quiet = Quiet(t),
                                      !.states = IF track THEN {abs} ELSE {}]]
        /\ UNCHANGED <<cfgVars, kept, mapVars, panic, loc, res, ghostVars>>

\* ch := make(chan K, count); go func() { wg.Add(SHARD_COUNT);
\* for _, shard := range m.shards { go func(shard) ... } }
KeysMake(t) ==
    /\ Running
    /\ pc[t] = "keys_make"
    /\ bulk' = [bulk EXCEPT ![t].out = MakeChan(bulk[t].count),
                            ![t].wg = shardCount,
                            ![t].task = [i \in 1..Len(shards) |-> "rlock"],
                            ![t].seen = [i \in 1..Len(shards) |-> {}]]
    /\ pc' = [pc EXCEPT ![t] = "keys_range"]
    /\ UNCHANGED <<cfgVars, kept, mapVars, panic, op, loc, res, left, ghostVars>>

\* the goroutine for shard i: shard.RLock()
KeysTaskRLock(t, i) ==
    /\ Running
    /\ op[t].name = "Keys"
    /\ i \in Tasks(t)
    /\ bulk[t].task[i] = "rlock"
    /\ CanRLock(i)
    /\ readers' = [readers EXCEPT ![i] = @ \cup {<<t, i>>}]
    /\ bulk' = [bulk EXCEPT ![t].task[i] = "send"]
    /\ UNCHANGED <<cfgVars, kept, shards, writer, panic, pc, op, loc, res, left, ghostVars>>

\* for key := range shard.items { ch <- key }.  A send on an unbuffered ch
\* (count was 0) is the receive of Keys' own loop.
KeysTaskSend(t, i) ==
    /\ Running
    /\ op[t].name = "Keys"
    /\ i \in Tasks(t)
    /\ bulk[t].task[i] = "send"
    /\ \E k \in Unvisited(shards[i], bulk[t].seen[i]) :
          IF bulk[t].out.cap = 0
          THEN /\ pc[t] = "keys_range"
               /\ bulk' = [bulk EXCEPT ![t].seen[i] = @ \cup {<<k, shards[i][k]>>},
                                       ![t].keys = Append(@, k)]
          ELSE /\ Fits(bulk[t].out)
               /\ bulk' = [bulk EXCEPT ![t].seen[i] = @ \cup {<<k, shards[i][k]>>},
                                       ![t].out.buf = Append(@, k)]
    /\ UNCHANGED <<cfgVars, kept, mapVars, panic, pc, op, loc, res, left, ghostVars>>

\* the range loop is over: shard.RUnlock(); wg.Done()
KeysTaskDone(t, i) ==
    /\ Running
    /\ op[t].name = "Keys"
    /\ i \in Tasks(t)
    /\ bulk[t].task[i] = "send"
    /\ Unvisited(shards[i], bulk[t].seen[i]) = {}
    /\ readers' = [readers EXCEPT ![i] = @ \ {<<t, i>>}]
    /\ IF bulk[t].wg = 0
       THEN panic' = "negative WaitGroup counter" /\ UNCHANGED bulk
       ELSE /\ bulk' = [bulk EXCEPT ![t].wg = @ - 1, ![t].task[i] = "done"]
            /\ UNCHANGED panic
    /\ UNCHANGED <<cfgVars, kept, shards, writer, pc, op, loc, res, left, ghostVars>>

\* wg.Wait(); close(ch)
KeysClose(t) ==
    /\ Running
    /\ op[t].name = "Keys"
    /\ bulk[t].out.made
    /\ ~bulk[t].out.closed
    /\ bulk[t].wg = 0
    /\ bulk' = [bulk EXCEPT ![t].out.closed = TRUE]
    /\ UNCHANGED <<cfgVars, kept, mapVars, panic, pc, op, loc, res, left, ghostVars>>

\* for k := range ch { keys = append(keys, k) }; return keys
KeysRange(t) ==
    /\ Running
    /\ pc[t] = "keys_range"
    /\ IF bulk[t].out.buf # <<>>
       THEN /\ bulk' = [bulk EXCEPT ![t].out.buf = Tail(@),
                                    ![t].keys = Append(@, Head(bulk[t].out.buf))]
            /\ UNCHANGED pc
       ELSE /\ bulk[t].out.closed
            /\ pc' = [pc EXCEPT ![t] = "bulk_ret"]
            /\ UNCHANGED bulk
    /\ UNCHANGED <<cfgVars, kept, mapVars, panic, op, loc, res, left, ghostVars>>

\* the goroutines of thread t's Keys
KeysRLock(t) == \E i \in Tasks(t) : KeysTaskRLock(t, i)
KeysSend(t) == \E i \in Tasks(t) : KeysTaskSend(t, i)
KeysDone(t) == \E i \in Tasks(t) : KeysTaskDone(t, i)

KeysStep(t) ==
    \/ KeysMake(t)
    \/ KeysRLock(t) \/ KeysSend(t) \/ KeysDone(t)
    \/ KeysClose(t)
    \/ KeysRange(t)

\* ------------------------------------------------------------------------
\* Spec: threads making keyed calls on a constructed map
\* ------------------------------------------------------------------------
CallAny(t) == CallKeyed(t, KeyedOps)

Next == \E t \in Threads : CallAny(t) \/ KeyedStep(t)

Spec == Init /\ [][Next]_vars

\* ------------------------------------------------------------------------
\* SpecRMW: SetIfAbsent, Upsert and Pop against each other and Set, with the
\* history of every key recorded
\* ------------------------------------------------------------------------
CallRMW(t) == CallKeyed(t, {"SetIfAbsent", "Upsert", "Pop", "Set"})

RMWStep(t) ==
    \/ Lock(t) \/ Unlock(t)
    \/ UpsertRead(t) \/ UpsertStore(t)
    \/ SetIfAbsentTest(t) \/ SetIfAbsentStore(t)
    \/ Set(t)
    \/ PopRead(t) \/ PopDelete(t)

NextRMW == \E t \in Threads : CallRMW(t) \/ RMWStep(t)

InitRMW == InitNew /\ track = TRUE

SpecRMW == InitRMW /\ [][NextRMW]_vars

\* ------------------------------------------------------------------------
\* SpecSets: every thread sets keys of its own range only, and counts
\* ------------------------------------------------------------------------
Owner(k) == ((k[1] - 97) % MaxThreads) + 1

\* a thread calls Set on a key of its range
CallSetOwn(t) ==
    \E o \in { x \in OpsNamed("Set") : Owner(x.key) = t } :
        /\ Begin(t, o)
        /\ Route(t, o.key, o.val, {}, "lock")
        /\ last' = GhostStore(last, o.key, o.val)
        /\ UNCHANGED <<cfgVars, kept, mapVars, res, bulk, abs, pre, hist, track>>

NextSets ==
    \E t \in Threads :
        \/ CallSetOwn(t) \/ CallCount(t)
        \/ Lock(t) \/ Set(t) \/ Unlock(t)
        \/ CountStep(t)

SpecSets == Init /\ [][NextSets]_vars

\* ------------------------------------------------------------------------
\* SpecBulk: the first thread makes bulk calls while the others set and remove
\* ------------------------------------------------------------------------
BulkCaller == CHOOSE t \in Threads : \A u \in Threads : t <= u

CallBulk(t) == t = BulkCaller /\ CallSnapshot(t, SnapshotOps)
CallBulkIterCb(t) == t = BulkCaller /\ CallIterCb(t)
CallBulkKeys(t) == t = BulkCaller /\ CallKeys(t)
CallBulkCount(t) == t = BulkCaller /\ CallCount(t)

CallWrite(t) == t # BulkCaller /\ CallKeyed(t, {"Set", "Remove"})

NextBulk ==
    \E t \in Threads :
        \/ CallBulk(t) \/ SnapshotStep(t)
        \/ CallBulkIterCb(t) \/ IterCbStep(t)
        \/ CallBulkKeys(t) \/ KeysStep(t)
        \/ CallBulkCount(t) \/ CountStep(t)
        \/ CallWrite(t)
        \/ Lock(t) \/ Set(t) \/ Remove(t) \/ Unlock(t)

SpecBulk == Init /\ [][NextBulk]_vars

\* ------------------------------------------------------------------------
\* SpecZero: every call on the zero value of ConcurrentMap
\* ------------------------------------------------------------------------
CallZeroKeyed(t) == CallKeyed(t, KeyedOps)
CallZeroSnapshot(t) == CallSnapshot(t, SnapshotOps)

NextZero ==
    \E t \in Threads :
        \/ CallZeroKeyed(t)
        \/ CallMSet(t) \/ MSetNext(t)
        \/ CallCount(t) \/ CallKeys(t) \/ CountNext(t)
        \/ CallZeroSnapshot(t)
        \/ CallIterCb(t) \/ IterCbNext(t) \/ BulkReturn(t)

SpecZero == InitZero /\ [][NextZero]_vars

\* ------------------------------------------------------------------------
\* SpecCfg: the program assigns SHARD_COUNT while threads use a constructed map
\* ------------------------------------------------------------------------
\* SHARD_COUNT = shardsCount
SetShardCount ==
    /\ Running
    /\ \E n \in 1..(ShardsAtNew + 1) :
          /\ n # shardCount
          /\ shardCount' = n
    /\ UNCHANGED <<sharding, kept, mapVars, panic, thrVars, ghostVars>>

CallCfgKeyed(t) == CallKeyed(t, IF t = BulkCaller THEN {"Get"} ELSE {"Set"})
CallCfgCount(t) ==
    /\ t = BulkCaller
    /\ CallCount(t)

CallCfgItems(t) ==
    /\ t = BulkCaller
    /\ \A u \in Threads : pc[u] = "idle"
    /\ CallSnapshot(t, {"Items"})

NextCfg ==
    \/ SetShardCount
    \/ \E t \in Threads :
        \/ CallCfgKeyed(t)
        \/ Lock(t) \/ Set(t) \/ Unlock(t)
        \/ RLock(t) \/ Get(t) \/ RUnlock(t)
        \/ CallCfgCount(t) \/ CountStep(t)
        \/ CallCfgItems(t) \/ SnapshotStep(t)

SpecCfg == Init /\ [][NextCfg]_vars

\* ------------------------------------------------------------------------
\* SpecScan: the first thread sets keys and calls Count, IsEmpty and Clear
\* while the others set and remove keys; the Clear and Count calls take note
\* of the writes that take effect while they run
\* ------------------------------------------------------------------------
InitScan == InitNew /\ track = TRUE

CallScanSet(t) ==
    /\ t = BulkCaller
    /\ CallKeyed(t, {"Set"})

CallScanCount(t) ==
    /\ t = BulkCaller
    /\ CallCount(t)

CallScanClear(t) ==
    /\ t = BulkCaller
    /\ CallSnapshot(t, {"Clear"})

CallScanWrite(t) ==
    /\ t # BulkCaller
    /\ CallKeyed(t, {"Set", "Remove"})

NextScan ==
    \E t \in Threads :
        \/ CallScanSet(t) \/ CallScanCount(t) \/ CallScanClear(t)
        \/ CallScanWrite(t)
        \/ Lock(t) \/ Set(t) \/ Remove(t) \/ Unlock(t)
        \/ CountStep(t)
        \/ SnapshotStep(t)

SpecScan == InitScan /\ [][NextScan]_vars

\* ------------------------------------------------------------------------
\* SpecRemoveCb: threads calling RemoveCb, with callbacks of every kind, and
\* Set
\* ------------------------------------------------------------------------
CallRemoveCb(t) ==
    \E k \in Keys, cb \in RemoveCbs \cup RemoveCbsArg :
        /\ Begin(t, KeyOp("RemoveCb", k, ZeroVal, cb))
        /\ Route(t, k, ZeroVal, {}, "lock")
        /\ UNCHANGED <<cfgVars, kept, mapVars, res, bulk, ghostVars>>

CallRemoveCbSet(t) == CallKeyed(t, {"Set"})

NextRemoveCb ==
    \E t \in Threads :
        \/ CallRemoveCb(t) \/ CallRemoveCbSet(t)
        \/ Lock(t) \/ Unlock(t)
        \/ Set(t)
        \/ RemoveCbCall(t) \/ RemoveCbDelete(t)

SpecRemoveCb == Init /\ [][NextRemoveCb]_vars

\* ------------------------------------------------------------------------
\* SpecExcl: the first thread reads (Get, Has, Count, IsEmpty, Keys, IterCb,
\* Items) and sets, the others write with every writing method and get; all
\* values written are 1
\* ------------------------------------------------------------------------
\* the calls named `names`, with value 1 and the callbacks "add" and "yes"
CallOne(t, names) ==
    \E name \in names, k \in Keys :
        /\ Begin(t, KeyOp(name, k,
                          IF name \in {"Set", "SetIfAbsent", "Upsert"} THEN 1
                          ELSE ZeroVal,
                          CASE name = "Upsert" -> "add"
                            [] name = "RemoveCb" -> "yes"
                            [] OTHER -> "none"))
        /\ Route(t, k, IF name \in {"Set", "SetIfAbsent", "Upsert"} THEN 1 ELSE ZeroVal,
                 {}, IF name \in ReadOps THEN "rlock" ELSE "lock")
        /\ UNCHANGED <<cfgVars, kept, mapVars, res, bulk, ghostVars>>

CallExclRead(t) ==
    /\ t = BulkCaller
    /\ CallOne(t, {"Get", "Has", "Set"})

CallExclCount(t) ==
    /\ t = BulkCaller
    /\ CallCount(t)

CallExclKeys(t) ==
    /\ t = BulkCaller
    /\ CallKeys(t)

CallExclIterCb(t) ==
    /\ t = BulkCaller
    /\ CallIterCb(t)

CallExclItems(t) ==
    /\ t = BulkCaller
    /\ CallSnapshot(t, {"Items"})

CallExclWrite(t) ==
    /\ t # BulkCaller
    /\ CallOne(t, WriteOps \cup {"Get"})

CallExclMSet(t) ==
    /\ t # BulkCaller
    /\ \E o \in { x \in OpsNamed("MSet") : \A k \in DOMAIN x.data : x.data[k] = 1 } :
          /\ Begin(t, o)
          /\ pc' = [pc EXCEPT ![t] = "mset"]
          /\ loc' = [loc EXCEPT ![t] = [NoLoc EXCEPT !.pending = DOMAIN o.data]]
          /\ UNCHANGED <<cfgVars, kept, mapVars, panic, res, bulk, ghostVars>>

NextExcl ==
    \E t \in Threads :
        \/ CallExclRead(t) \/ CallExclCount(t) \/ CallExclKeys(t)
        \/ CallExclIterCb(t) \/ CallExclItems(t)
        \/ CallExclWrite(t) \/ CallExclMSet(t)
        \/ KeyedStep(t) \/ MSetNext(t)
        \/ CountStep(t) \/ KeysStep(t) \/ IterCbStep(t) \/ SnapshotStep(t)

SpecExcl == Init /\ [][NextExcl]_vars

\* ------------------------------------------------------------------------
\* SpecIterCb: the first thread calls IterCb while the others set and remove
\* keys; the IterCb calls take note of the contents the map goes through
\* ------------------------------------------------------------------------
InitIterCb == InitNew /\ track = TRUE

CallIterCbOwn(t) ==
    /\ t = BulkCaller
    /\ CallIterCb(t)

CallIterCbWrite(t) ==
    /\ t # BulkCaller
    /\ CallKeyed(t, {"Set", "Remove"})

NextIterCb ==
    \E t \in Threads :
        \/ CallIterCbOwn(t) \/ CallIterCbWrite(t)
        \/ Lock(t) \/ Set(t) \/ Remove(t) \/ Unlock(t)
        \/ IterCbStep(t)
        \/ BulkReturn(t)

SpecIterCb == InitIterCb /\ [][NextIterCb]_vars

\* ------------------------------------------------------------------------
\* SpecIter: the first thread calls Iter and IterBuffered and reads from the
\* channel it gets as it pleases, or not at all; the others set keys.  Every
\* goroutine that can run does run in the end: the goroutines snapshot
\* starts and the threads inside Set.  Nothing makes the consumer (Range) or
\* fanIn's goroutines, which wait for it, take a step.
\* ------------------------------------------------------------------------
CallIter(t) ==
    /\ t = BulkCaller
    /\ CallSnapshot(t, {"Iter", "IterBuffered"})

CallIterSet(t) ==
    /\ t # BulkCaller
    /\ CallKeyed(t, {"Set"})

NextIter ==
    \E t \in Threads :
        \/ CallIter(t) \/ CallIterSet(t)
        \/ Lock(t) \/ Set(t) \/ Unlock(t)
        \/ SnapshotStep(t)

FairIter ==
    \A t \in Threads :
        /\ WF_vars(Lock(t)) /\ WF_vars(Set(t)) /\ WF_vars(Unlock(t))
        /\ WF_vars(SnapshotReturn(t))
        /\ \A i \in 1..ShardsAtNew :
              /\ WF_vars(TaskRLock(t, i))
              /\ WF_vars(TaskSend(t, i))
              /\ WF_vars(TaskClose(t, i))

SpecIter == Init /\ [][NextIter]_vars /\ FairIter

\* ------------------------------------------------------------------------
\* SpecReent: threads calling Upsert and RemoveCb with callbacks that call
\* the map, and Set
\* ------------------------------------------------------------------------
CallReent(t) ==
    \E name \in {"Upsert", "RemoveCb"}, k \in Keys, k2 \in Keys, cb \in ReentrantCbs :
        /\ Begin(t, [KeyOp(name, k, IF name = "Upsert" THEN 1 ELSE ZeroVal, cb)
                        EXCEPT !.inner = IF cb = "callsCount" THEN NoKey ELSE k2])
        /\ Route(t, k, IF name = "Upsert" THEN 1 ELSE ZeroVal, {}, "lock")
        /\ UNCHANGED <<cfgVars, kept, mapVars, res, bulk, ghostVars>>

CallReentSet(t) == CallOne(t, {"Set"})

NextReent ==
    \E t \in Threads :
        \/ CallReent(t) \/ CallReentSet(t)
        \/ Lock(t) \/ Unlock(t)
        \/ Set(t)
        \/ CbStep(t)
        \/ UpsertStore(t) \/ RemoveCbDelete(t)

SpecReent == Init /\ [][NextReent]_vars

\* ------------------------------------------------------------------------
\* SpecJSON: the first thread marshals the map and unmarshals the bytes into
\* a map it constructs; the others set keys, one of them the byte 0xff
\* ------------------------------------------------------------------------
\* the keys set: "a", "b", ... and "\xff"
WireKeys == Keys \cup { <<255>> }

CallJSONSet(t) ==
    /\ t # BulkCaller
    /\ \E k \in WireKeys, v \in Vals :
          /\ Begin(t, KeyOp("Set", k, v, "none"))
          /\ Route(t, k, v, {}, "lock")
    /\ kept' = [u \in Threads |->
                  IF pc[u] # "idle" /\ op[u].name = "MarshalJSON"
                  THEN [kept[u] EXCEPT !.alone = FALSE] ELSE kept[u]]
    /\ UNCHANGED <<cfgVars, mapVars, res, bulk, ghostVars>>

CallJSONMarshal(t) ==
    /\ t = BulkCaller
    /\ ~kept[t].has
    /\ CallMarshalJSON(t)

CallJSONUnmarshal(t) ==
    /\ t = BulkCaller
    /\ CallUnmarshalJSON(t)

SnapshotJSON(t) ==
    \/ SnapshotRLock(t) \/ SnapshotSend(t) \/ SnapshotClose(t)
    \/ SnapshotReturn(t)
    \/ FanInMove(t) \/ FanInEnd(t) \/ FanInClose(t)
    \/ Range(t)

NextJSON ==
    \E t \in Threads :
        \/ CallJSONSet(t) \/ CallJSONMarshal(t) \/ CallJSONUnmarshal(t)
        \/ Lock(t) \/ Set(t) \/ Unlock(t)
        \/ SnapshotJSON(t)
        \/ MarshalJSONReturn(t)
        \/ UnmarshalSet(t) \/ UnmarshalReturn(t)

SpecJSON == Init /\ [][NextJSON]_vars

\* ------------------------------------------------------------------------
\* SpecDup: the first thread calls Keys, Iter and IterBuffered and consumes
\* what they deliver, the others set and remove keys meanwhile
\* ------------------------------------------------------------------------
InitDup == InitNew /\ track = TRUE

CallDupKeys(t) ==
    /\ t = BulkCaller
    /\ CallKeys(t)

CallDupIter(t) ==
    /\ t = BulkCaller
    /\ CallSnapshot(t, {"Iter", "IterBuffered"})

CallDupWrite(t) ==
    /\ t # BulkCaller
    /\ CallKeyed(t, {"Set", "Remove"})

NextDup ==
    \E t \in Threads :
        \/ CallDupKeys(t) \/ CallDupIter(t) \/ CallDupWrite(t)
        \/ Lock(t) \/ Set(t) \/ Remove(t) \/ Unlock(t)
        \/ CountNext(t) \/ CountLen(t)
        \/ KeysStep(t)
        \/ SnapshotStep(t)

SpecDup == InitDup /\ [][NextDup]_vars

\* ------------------------------------------------------------------------
\* SpecLive: every public operation, under a fair scheduler.  The first
\* thread makes one call of those that visit every shard, draining the
\* channel Iter and IterBuffered return; the others make the keyed calls and
\* MSet, on the first key of each shard and with the value 1.  Every goroutine that can take a step takes one in the end:
\* the calling threads, the goroutines snapshot, fanIn and Keys start.
\* ------------------------------------------------------------------------
\* the first key of each shard of a map constructed with ShardsAtNew shards
LiveKeys ==
    { k \in Keys : \A j \in Keys :
        ModU32(fnv32(j), ShardsAtNew) = ModU32(fnv32(k), ShardsAtNew) => k[1] <= j[1] }

CallLiveCount(t) ==
    /\ t = BulkCaller
    /\ left[t] = MaxOps
    /\ CallCount(t)

CallLiveKeys(t) ==
    /\ t = BulkCaller
    /\ left[t] = MaxOps
    /\ CallKeys(t)

CallLiveIterCb(t) ==
    /\ t = BulkCaller
    /\ left[t] = MaxOps
    /\ CallIterCb(t)

CallLiveSnapshot(t) ==
    /\ t = BulkCaller
    /\ left[t] = MaxOps
    /\ CallSnapshot(t, {"Items", "Clear", "Iter", "IterBuffered"})

CallLiveKeyed(t) ==
    /\ t # BulkCaller
    /\ \E name \in KeyedOps, k \in LiveKeys :
          /\ Begin(t, KeyOp(name, k,
                            IF name \in {"Set", "SetIfAbsent", "Upsert"} THEN 1
                            ELSE ZeroVal,
                            CASE name = "Upsert" -> "add"
                              [] name = "RemoveCb" -> "yes"
                              [] OTHER -> "none"))
          /\ Route(t, k, IF name \in {"Set", "SetIfAbsent", "Upsert"} THEN 1 ELSE ZeroVal,
                   {}, IF name \in ReadOps THEN "rlock" ELSE "lock")
    /\ UNCHANGED <<cfgVars, kept, mapVars, res, bulk, ghostVars>>

CallLiveMSet(t) ==
    /\ t # BulkCaller
    /\ \E o \in { x \in OpsNamed("MSet") :
                      /\ DOMAIN x.data \subseteq LiveKeys
                      /\ \A k \in DOMAIN x.data : x.data[k] = 1 } :
          /\ Begin(t, o)
          /\ pc' = [pc EXCEPT ![t] = "mset"]
          /\ loc' = [loc EXCEPT ![t] = [NoLoc EXCEPT !.pending = DOMAIN o.data]]
          /\ UNCHANGED <<cfgVars, kept, mapVars, panic, res, bulk, ghostVars>>

\* the steps of thread t's own goroutine
ThreadStep(t) ==
    \/ KeyedStep(t) \/ MSetNext(t)
    \/ CountStep(t) \/ IterCbStep(t)
    \/ KeysMake(t) \/ KeysRange(t)
    \/ SnapshotReturn(t) \/ Range(t) \/ BulkReturn(t)

\* the steps of the goroutines started for shard i, or channel i, by the
\* snapshot, the fanIn and the Keys of thread t
SnapshotTask(t, i) == TaskRLock(t, i) \/ TaskSend(t, i) \/ TaskClose(t, i)
FanInTask(t, i) == FanIn(t, i) \/ FanInDone(t, i)
KeysTask(t, i) == KeysTaskRLock(t, i) \/ KeysTaskSend(t, i) \/ KeysTaskDone(t, i)

NextLive ==
    \E t \in Threads :
        \/ CallLiveCount(t) \/ CallLiveKeys(t)
        \/ CallLiveIterCb(t) \/ CallLiveSnapshot(t)
        \/ CallLiveKeyed(t) \/ CallLiveMSet(t)
        \/ KeyedStep(t) \/ MSetNext(t)
        \/ CountStep(t) \/ KeysStep(t) \/ IterCbStep(t) \/ SnapshotStep(t)

FairLive ==
    \A t \in Threads :
        /\ WF_vars(ThreadStep(t))
        /\ WF_vars(FanInClose(t))
        /\ WF_vars(KeysClose(t))
        /\ \A i \in 1..ShardsAtNew :
              /\ WF_vars(SnapshotTask(t, i))
              /\ WF_vars(FanInTask(t, i))
              /\ WF_vars(KeysTask(t, i))

SpecLive == Init /\ [][NextLive]_vars /\ FairLive

\* ------------------------------------------------------------------------
\* Properties
\* ------------------------------------------------------------------------
\* v, ok := m.shards[...].items[k], as GetShard routes k now
Stored(k) ==
    LET g == GetShard(k)
    IN  IF g.panic = "none" THEN GhostLookup(shards[g.sh], k) ELSE NoRes

\* the shards hold what the writes that took effect left
AbsOK == \A k \in Keys : Stored(k) = GhostLookup(abs, k)

In(t, name, at) == op[t].name = name /\ pc[t] \in at

\* C1: a Get returns the value of the last write that took effect on its key
\* before it read (found = false after a removal), so a Get that starts after
\* Set(k, v) returned yields (v, true) and one that starts after Remove(k)
\* returned yields found = false, unless k was written in between; when Set
\* returns k holds v, when Remove returns k is absent; no call fails.
C1_GetSeesLastWrite ==
    /\ panic = "none"
    /\ AbsOK
    /\ \A t \in Threads :
        /\ In(t, "Get", {"runlock"}) =>
              /\ res[t] = pre[t]
              /\ res[t] = Stored(loc[t].key)
              /\ ~res[t].ok => res[t].v = ZeroVal
        /\ In(t, "Set", {"unlock"}) =>
              Stored(loc[t].key) = [v |-> op[t].val, ok |-> TRUE]
        /\ In(t, "Remove", {"unlock"}) => ~Stored(loc[t].key).ok

\* a Get has read a value that a Set of another thread, since returned, stored
C1_Witness ==
    \E t \in Threads :
        /\ In(t, "Get", {"runlock"})
        /\ res[t] = [v |-> 2, ok |-> TRUE]
        /\ \A u \in Threads \ {t} : pc[u] = "idle" /\ left[u] < MaxOps

\* C2: SetIfAbsent returns true and stores its value iff the key was absent
\* when it tested, else returns false and leaves the value as it was; nothing
\* is written to the key between its test and its store; and between two
\* deletions of a key at most one SetIfAbsent on it returns true.
C2_SetIfAbsentAtomic ==
    /\ \A t \in Threads :
        /\ In(t, "SetIfAbsent", {"sia_store", "unlock"}) => res[t].ok = ~pre[t].ok
        /\ In(t, "SetIfAbsent", {"sia_store"}) => Stored(loc[t].key) = pre[t]
        /\ In(t, "SetIfAbsent", {"unlock"}) =>
              Stored(loc[t].key) = IF pre[t].ok THEN pre[t]
                                   ELSE [v |-> op[t].val, ok |-> TRUE]
    /\ \A k \in Keys : hist[k].wins <= 1

\* two SetIfAbsent calls on one absent key race: one has stored and returns
\* true while the other waits for the shard
C2_Witness ==
    \E t, u \in Threads :
        /\ t # u
        /\ In(t, "SetIfAbsent", {"unlock"}) /\ res[t].ok
        /\ In(u, "SetIfAbsent", {"lock"}) /\ op[u].key = op[t].key
        /\ hist[op[t].key].wins = 1

\* C3: Pop returns the content of its key as it was when it read (the value
\* and true, or not found), nothing is written to the key between its read
\* and its delete, the key is absent when it returns, and between two stores
\* to a key at most one Pop finds it.
C3_PopAtomic ==
    /\ \A t \in Threads :
        /\ In(t, "Pop", {"pop_delete", "unlock"}) => res[t] = pre[t]
        /\ In(t, "Pop", {"pop_delete"}) => Stored(loc[t].key) = pre[t]
        /\ In(t, "Pop", {"unlock"}) => ~Stored(loc[t].key).ok
    /\ \A k \in Keys : hist[k].pops <= 1

\* two Pop calls on one present key race: one has found and deleted it while
\* the other waits for the shard
C3_Witness ==
    \E t, u \in Threads :
        /\ t # u
        /\ In(t, "Pop", {"unlock"}) /\ res[t].ok /\ res[t].v \in Vals
        /\ In(u, "Pop", {"lock"}) /\ op[u].key = op[t].key
        /\ hist[op[t].key].pops = 1

\* the stored content of every key is what its owner set last
AllAsSetLast == \A k \in Keys : Stored(k) = GhostLookup(last, k)

C5_UpsertAtomic ==
    /\ \A t \in Threads :
        /\ In(t, "Upsert", {"upsert_store", "unlock"}) =>
              res[t].v = IF pre[t].ok THEN pre[t].v + op[t].val ELSE op[t].val
        /\ In(t, "Upsert", {"upsert_store"}) => Stored(loc[t].key) = pre[t]
        /\ In(t, "Upsert", {"unlock"}) =>
              Stored(loc[t].key) = [v |-> res[t].v, ok |-> TRUE]
    /\ \A k \in Keys :
          hist[k].pure =>
              /\ Stored(k) = [v |-> hist[k].n, ok |-> hist[k].n > 0]
              /\ hist[k].rets = 1..hist[k].n

\* two Upserts of 1 on one absent key race: the second has stored 2 while a
\* third call waits for the shard
C5_Witness ==
    \E t, u \in Threads :
        /\ t # u
        /\ In(t, "Upsert", {"unlock"}) /\ res[t].v = 2
        /\ In(u, "Upsert", {"lock"}) /\ op[u].key = op[t].key
        /\ hist[op[t].key].pure /\ hist[op[t].key].n = 2

\* C6 as claimed: on the zero value every call aborts with the panic that
\* names the map as not initialized, and none returns.
C6_UninitializedAborts ==
    Len(shards) = 0 =>
        /\ panic \in {"none", "not initialized"}
        /\ \A t \in Threads : pc[t] # "bulk_ret"

\* C7 as claimed: assigning SHARD_COUNT after construction changes nothing for
\* the map: no call fails, a Get still returns what was last written to its
\* key, and a Count after all writes returns the number of stored keys.
C7_ShardCountFixed ==
    /\ panic = "none"
    /\ \A t \in Threads :
        /\ In(t, "Get", {"runlock"}) => res[t] = pre[t]
        /\ (pc[t] = "count_ret" /\ bulk[t].quiet) => res[t].v = Cardinality(DOMAIN abs)

InBody ==
    {"set", "upsert_read", "upsert_store", "sia_test", "sia_store", "remove",
     "removecb_call", "removecb_delete", "pop_read", "pop_delete", "unlock",
     "get", "has", "runlock"}

\* C8: a keyed call is held up by its own shard's lock only: whatever locks of
\* other shards are held, a thread waiting for a shard whose lock is free can
\* take it, and a thread inside a call can always take the call's next step.
C8_NoCrossShardBlocking ==
    \A u \in Threads :
        /\ (pc[u] = "lock" /\ writer[loc[u].sh] = None /\ readers[loc[u].sh] = {})
              => ENABLED Lock(u)
        /\ (pc[u] = "rlock" /\ writer[loc[u].sh] = None) => ENABLED RLock(u)
        /\ pc[u] \in InBody => ENABLED KeyedStep(u)

\* a thread is between the callback and the store of an Upsert, holding the
\* write lock of one shard, while another thread starts a call on a key of
\* another shard
C8_Witness ==
    \E t, u \in Threads :
        /\ In(t, "Upsert", {"upsert_store"}) /\ writer[loc[t].sh] = G(t)
        /\ pc[u] \in {"lock", "rlock"} /\ loc[u].sh # loc[t].sh

\* the goroutines: every thread and the goroutines its bulk call started
Goroutines == { <<t, i>> : t \in Threads, i \in 0..Len(shards) }

\* the shards whose lock goroutine g holds
HeldBy(g) == { s \in 1..Len(shards) : writer[s] = g \/ g \in readers[s] }

\* the shards whose lock is held by thread t or a goroutine of its call
HeldFor(t) ==
    { s \in 1..Len(shards) : writer[s][1] = t \/ \E g \in readers[s] : g[1] = t }

Pairs(m) == { <<k, m[k]>> : k \in DOMAIN m }

\* C10: what snapshot's goroutine for a shard passes on is the shard's content
\* at the instant it took the read lock: the shard does not change while the
\* goroutine holds the lock, the channel is made for exactly that content, the
\* tuples sent once the goroutine is done are that content, and the map that
\* Items, MarshalJSON or the consumer of Iter or IterBuffered ends with is, for
\* each shard, that content.
C10_ShardPartAtomic ==
    \A t \in Threads :
        op[t].name \in SnapshotOps =>
            /\ \A i \in Tasks(t) :
                /\ bulk[t].task[i] = "send" =>
                      /\ shards[i] = bulk[t].at[i]
                      /\ bulk[t].seen[i] \subseteq Pairs(bulk[t].at[i])
                      /\ bulk[t].chans[i].cap = Cardinality(DOMAIN bulk[t].at[i])
                /\ bulk[t].task[i] = "done" =>
                      bulk[t].seen[i] = Pairs(bulk[t].at[i])
            /\ (pc[t] = "bulk_ret" /\ op[t].name # "Clear") =>
                  \A k \in Keys :
                      GhostLookup(bulk[t].tmp, k)
                          = GhostLookup(bulk[t].at[GetShard(k).sh], k)

\* a snapshot's goroutine has sent one of the two tuples of its shard while a
\* writer waits for the shard's lock
C10_Witness ==
    \E t, u \in Threads : \E i \in Tasks(t) :
        /\ op[t].name \in SnapshotOps
        /\ bulk[t].task[i] = "send"
        /\ Cardinality(bulk[t].seen[i]) = 1
        /\ Cardinality(DOMAIN bulk[t].at[i]) = 2
        /\ pc[u] = "lock" /\ loc[u].sh = i

\* the keys of a sequence of keys
Range1(seq) == { seq[i] : i \in 1..Len(seq) }

\* C11: with every other thread finished before the call, Keys returns each
\* stored key exactly once and nothing else (as many as Count counted), and
\* Items and MarshalJSON collect exactly the stored key-to-value mapping.
C11_KeysItemsExact ==
    \A t \in Threads :
        (pc[t] = "bulk_ret" /\ bulk[t].quiet) =>
            /\ op[t].name = "Keys" =>
                  /\ Range1(bulk[t].keys) = DOMAIN abs
                  /\ Len(bulk[t].keys) = Cardinality(DOMAIN abs)
                  /\ Len(bulk[t].keys) = bulk[t].count
                  /\ \A k \in Keys : Has(abs, k) = Stored(k).ok
            /\ op[t].name \in {"Items", "MarshalJSON"} =>
                  /\ bulk[t].tmp = abs
                  /\ \A k \in Keys : GhostLookup(bulk[t].tmp, k) = Stored(k)

\* Keys is about to return two keys, of different shards, that another thread
\* stored before the call
C11_Witness ==
    \E t \in Threads :
        /\ pc[t] = "bulk_ret" /\ bulk[t].quiet /\ op[t].name = "Keys"
        /\ Len(bulk[t].keys) = 2
        /\ GetShard(bulk[t].keys[1]).sh # GetShard(bulk[t].keys[2]).sh

\* the map holds no key
Empty == abs = EmptyMap /\ \A i \in 1..Len(shards) : shards[i] = EmptyMap

\* C12: Clear is a snapshot followed by one Remove per key of the snapshot,
\* each under its own lock acquisition: between them Clear holds no lock, so
\* writes of other threads take effect in between, and a key that is present
\* when Clear returns is one that another thread stored after the key's shard
\* was snapshotted.
C12_ClearStepwise ==
    \A t \in Threads :
        op[t].name = "Clear" =>
            /\ pc[t] \in {"snap_wait", "range", "lock", "bulk_ret"} => HeldBy(G(t)) = {}
            /\ pc[t] = "bulk_ret" =>
                  \A k \in Keys : Stored(k).ok => k \in bulk[t].late

\* Clear is about to return, the Sets of the other threads have all returned,
\* and the map is not empty
C12_Witness ==
    \E t \in Threads :
        /\ op[t].name = "Clear" /\ pc[t] = "bulk_ret"
        /\ \A u \in Threads \ {t} : pc[u] = "idle"
        /\ ~Empty
        /\ \E i \in Tasks(t) : bulk[t].at[i] # EmptyMap

\* C13: Count read-locks one shard at a time and adds its size; when every
\* other thread had finished before the call the result is the number of
\* stored keys (and IsEmpty tells whether it is 0); otherwise it is a sum of
\* sizes read at different instants.
C13_CountShardByShard ==
    \A t \in Threads :
        op[t].name \in {"Count", "IsEmpty"} =>
            /\ pc[t] = "count" => HeldBy(G(t)) = {}
            /\ pc[t] = "count_len" => HeldBy(G(t)) = {bulk[t].i + 1}
            /\ pc[t] # "idle" => Cardinality(DOMAIN abs) \in bulk[t].sizes
            /\ (pc[t] = "count_ret" /\ bulk[t].quiet) =>
                  /\ bulk[t].sizes = {res[t].v}
                  /\ res[t].v = Cardinality(DOMAIN abs)
                  /\ res[t].ok = Empty

\* Count is about to return a number that was at no instant since the call
\* began the number of stored keys
C13_Witness ==
    \E t \in Threads :
        /\ op[t].name = "Count" /\ pc[t] = "count_ret"
        /\ res[t].v \notin bulk[t].sizes

\* C20: when every other thread had finished before the call, the map is
\* empty when Clear returns, and a Count or IsEmpty that then runs reports 0
\* and true; and Clear removes only keys its snapshot of their shard held.
C20_ClearEmpties ==
    \A t \in Threads :
        /\ op[t].name = "Clear" =>
            /\ (pc[t] = "bulk_ret" /\ bulk[t].quiet) =>
                  /\ Empty
                  /\ \A k \in Keys : ~Stored(k).ok
            /\ pc[t] \in {"lock", "remove", "unlock"} =>
                  loc[t].key \in DOMAIN bulk[t].at[loc[t].sh]
        /\ (op[t].name \in {"Count", "IsEmpty"} /\ pc[t] = "count_ret" /\ Empty
              /\ bulk[t].quiet) => (res[t].v = 0 /\ res[t].ok)

\* Clear, called when the other threads had stored two keys and finished, is
\* about to return
C20_Witness ==
    \E t \in Threads :
        /\ op[t].name = "Clear" /\ pc[t] = "bulk_ret" /\ bulk[t].quiet
        /\ Cardinality(UNION { DOMAIN bulk[t].at[i] : i \in Tasks(t) }) = 2

\* C15: RemoveCb calls cb once, under the shard's write lock, with the key,
\* the key's content at that moment (the zero value and false if absent);
\* nothing is written to the key between the call of cb and the delete; the
\* entry is deleted iff cb returned true and the key was present, and is as it
\* was otherwise; cb's result is returned in every case; no other entry
\* changes.
C15_RemoveCbContract ==
    /\ AbsOK
    /\ \A t \in Threads :
        In(t, "RemoveCb", {"removecb_call", "removecb_delete", "unlock"}) =>
            /\ writer[loc[t].sh] = G(t)
            /\ pc[t] = "removecb_call" => loc[t].args = <<>>
            /\ pc[t] # "removecb_call" =>
                  /\ loc[t].args = << <<op[t].key, pre[t].v, pre[t].ok>> >>
                  /\ ~pre[t].ok => pre[t].v = ZeroVal
                  /\ res[t].ok = RemoveCb(op[t].cb, op[t].key, pre[t].v, pre[t].ok)
            /\ pc[t] = "removecb_delete" => Stored(op[t].key) = pre[t]
            /\ pc[t] = "unlock" =>
                  Stored(op[t].key) = IF res[t].ok /\ pre[t].ok THEN NoRes ELSE pre[t]

\* RemoveCb is about to return true for an absent key, having deleted nothing
C15_Witness ==
    \E t \in Threads :
        /\ In(t, "RemoveCb", {"unlock"})
        /\ op[t].cb = "ifabsent" /\ res[t].ok /\ ~pre[t].ok
        /\ abs # EmptyMap

\* the goroutines that are inside a write critical section on shard s:
\* between Lock and Unlock of Set, MSet, Upsert, SetIfAbsent, Remove (also
\* Clear's), RemoveCb or Pop
InWrite(s) ==
    { G(t) : t \in { u \in Threads :
                        /\ pc[u] \in InBody \ {"get", "has", "runlock"}
                        /\ loc[u].sh = s } }

\* the goroutines that are inside a read critical section on shard s: between
\* RLock and RUnlock of Get, Has, Count, IterCb, or of the goroutine that
\* snapshot or Keys started for s
InRead(s) ==
    { G(t) : t \in { u \in Threads :
                        \/ pc[u] \in {"get", "has", "runlock"} /\ loc[u].sh = s
                        \/ pc[u] \in {"count_len", "itercb_fn"} /\ bulk[u].i + 1 = s } }
    \cup { <<t, s>> : t \in { u \in Threads :
                                 /\ op[u].name \in SnapshotOps \cup {"Keys"}
                                 /\ s \in Tasks(u)
                                 /\ bulk[u].task[s] = "send" } }

\* C16: on every shard, in every reachable state, at most one goroutine is
\* inside a write critical section, and while one is, none is inside a read
\* critical section.
C16_ReaderWriterExclusion ==
    \A s \in 1..Len(shards) :
        /\ Cardinality(InWrite(s)) <= 1
        /\ InWrite(s) # {} => InRead(s) = {}

\* two readers are inside one shard at once, a Get and the goroutine of an
\* Items call of another thread
C16_Witness ==
    \E s \in 1..Len(shards) : \E t, u \in Threads :
        /\ t # u
        /\ <<t, s>> \in InRead(s) /\ op[t].name = "Items"
        /\ G(u) \in InRead(s) /\ op[u].name = "Get"

\* the pairs of the map m whose keys route to shard s
PairsOf(m, s) == { x \in Pairs(m) : GetShard(x[1]).sh = s }

\* C18: IterCb visits the shards in index order, one at a time; while it
\* passes the entries of a shard to fn it holds that shard's read lock and the
\* shard does not change; what fn has been passed for a shard it has left is
\* exactly that shard's content at the instant its lock was taken.
C18_IterCbShardAtomic ==
    \A t \in Threads :
        In(t, "IterCb", {"itercb", "itercb_fn", "bulk_ret"}) =>
            /\ Len(bulk[t].at) = bulk[t].i + (IF pc[t] = "itercb_fn" THEN 1 ELSE 0)
            /\ pc[t] # "itercb_fn" => HeldBy(G(t)) = {}
            /\ pc[t] = "itercb_fn" =>
                  /\ HeldBy(G(t)) = {bulk[t].i + 1}
                  /\ shards[bulk[t].i + 1] = bulk[t].at[bulk[t].i + 1]
                  /\ bulk[t].seen[1] \subseteq Pairs(bulk[t].at[bulk[t].i + 1])
                  /\ PairsOf(bulk[t].tmp, bulk[t].i + 1) = bulk[t].seen[1]
            /\ pc[t] = "bulk_ret" => bulk[t].i = Len(shards)
            /\ \A s \in 1..Len(shards) :
                  /\ s <= bulk[t].i => PairsOf(bulk[t].tmp, s) = Pairs(bulk[t].at[s])
                  /\ s > bulk[t].i + 1 => PairsOf(bulk[t].tmp, s) = {}

\* IterCb is about to return having passed to fn a set of pairs that was at
\* no instant since the call began the content of the map
C18_Witness ==
    \E t \in Threads :
        /\ In(t, "IterCb", {"bulk_ret"})
        /\ bulk[t].tmp \notin bulk[t].states
        /\ bulk[t].tmp # EmptyMap

\* snapshot has returned only when every goroutine has its lock and has made
\* its channel; a goroutine with tuples left to send has room for them; a
\* goroutine that is done has sent as many tuples as its channel's capacity,
\* holds no lock and has closed its channel
SnapshotNeverWaits ==
    \A t \in Threads :
        op[t].name \in SnapshotOps =>
            /\ pc[t] \in {"range", "bulk_ret"} =>
                  \A i \in Tasks(t) : bulk[t].task[i] # "rlock" /\ bulk[t].chans[i].made
            /\ \A i \in Tasks(t) :
                /\ bulk[t].task[i] = "rlock" => <<t, i>> \notin readers[i]
                /\ bulk[t].task[i] = "send" =>
                      /\ <<t, i>> \in readers[i]
                      /\ Unvisited(shards[i], bulk[t].seen[i]) # {}
                            => Fits(bulk[t].chans[i])
                /\ bulk[t].task[i] = "done" =>
                      /\ <<t, i>> \notin readers[i]
                      /\ bulk[t].chans[i].closed
                      /\ Cardinality(bulk[t].seen[i]) = bulk[t].chans[i].cap

\* C19: snapshot returns only after every goroutine has taken its read lock
\* and sized its channel; a goroutine sends as many tuples as the channel's
\* capacity, so it never waits for a receiver while it holds the lock; every
\* goroutine that has taken its lock releases it and closes its channel,
\* whether or not anyone receives from the channel Iter or IterBuffered
\* returned; and every thread waiting for a shard's write lock gets it.
C19_SnapshotReleases ==
    /\ []SnapshotNeverWaits
    /\ \A t \in Threads : \A i \in 1..ShardsAtNew :
          (<<t, i>> \in readers[i]) ~> (<<t, i>> \notin readers[i])
    /\ \A u \in Threads : (pc[u] = "lock") ~> (pc[u] = "set")

\* nothing has been received from the channel IterBuffered returned, whose
\* snapshot holds a tuple; every goroutine of the snapshot has released its
\* lock and a Set holds the write lock of the shard the tuple came from
C19_Witness ==
    \E t, u \in Threads :
        /\ op[t].name = "IterBuffered" /\ pc[t] = "range"
        /\ bulk[t].tmp = EmptyMap /\ bulk[t].out.buf = <<>>
        /\ \A i \in Tasks(t) :
              /\ bulk[t].task[i] = "done"
              /\ Len(bulk[t].chans[i].buf) = bulk[t].chans[i].cap
        /\ pc[u] = "set" /\ writer[loc[u].sh] = G(u)
        /\ bulk[t].chans[loc[u].sh].cap > 0

\* thread t is inside a callback that calls the map, or past it
InCb(t) ==
    /\ op[t].cb \in ReentrantCbs
    /\ pc[t] \notin {"idle", "lock", "upsert_read", "removecb_call", "panicked"}

\* the positions of a call whose callback has returned
PastCb == {"cb_ret", "upsert_store", "removecb_delete", "unlock"}

\* C17 as claimed: a call of Upsert or RemoveCb whose callback calls the map,
\* whatever the key, never gets past the callback.
C17_AnyReentryDeadlocks ==
    \A t \in Threads : InCb(t) => pc[t] \notin PastCb

\* the call the callback makes needs the lock of the outer call's shard
NeedsOwnShard(t) ==
    \/ op[t].cb = "callsCount"
    \/ GetShard(op[t].inner).sh = loc[t].sh

\* C17, amended: when the callback makes a keyed call (Get, Set) on a key of
\* the outer key's shard, or calls Count, the callback never returns: the
\* inner call never gets the shard's lock, the outer call never gets past the
\* callback and keeps the shard's write lock.  When the callback makes a
\* keyed call on a key of another shard, it waits for that shard's lock only.
C17_SameShardDeadlocks ==
    \A t \in Threads :
        InCb(t) =>
            /\ NeedsOwnShard(t) =>
                  /\ pc[t] \in {"cb_rlock", "cb_lock", "cb_count", "cb_count_len"}
                  /\ pc[t] = "cb_count" => loc[t].in < loc[t].sh
                  /\ pc[t] = "cb_count_len" => loc[t].in + 1 < loc[t].sh
                  /\ writer[loc[t].sh] = G(t)
                  /\ (pc[t] \in {"cb_rlock", "cb_lock"}
                        \/ (pc[t] = "cb_count" /\ loc[t].in + 1 = loc[t].sh))
                        => ~ENABLED CbStep(t)
            /\ ~NeedsOwnShard(t) =>
                  /\ (pc[t] = "cb_rlock" /\ writer[loc[t].in] = None)
                        => ENABLED CbRLock(t)
                  /\ (pc[t] = "cb_lock" /\ writer[loc[t].in] = None
                        /\ readers[loc[t].in] = {}) => ENABLED CbLock(t)
                  /\ pc[t] \in {"cb_runlock", "cb_unlock", "cb_ret"} => ENABLED CbStep(t)

\* an Upsert whose callback calls Get on another key of the same shard waits
\* for the lock it holds itself, and another thread waits for that shard too
C17_Witness ==
    \E t, u \in Threads :
        /\ In(t, "Upsert", {"cb_rlock"})
        /\ op[t].inner # op[t].key /\ loc[t].in = loc[t].sh
        /\ writer[loc[t].sh] = G(t)
        /\ pc[u] = "lock" /\ loc[u].sh = loc[t].sh

\* n.Items(): the entries of all the shards of a map
ItemsOf(ss) ==
    [k \in UNION { DOMAIN ss[i] : i \in DOMAIN ss } |->
        ss[CHOOSE i \in DOMAIN ss : k \in DOMAIN ss[i]][k]]

\* C14 as claimed: when UnmarshalJSON has decoded, into a constructed map,
\* the bytes of a MarshalJSON during which no other thread was in a call, that
\* map's Items() equals the content m had when it was marshaled.
C14_RoundTrip ==
    \A t \in Threads :
        (kept[t].done /\ kept[t].alone) => ItemsOf(kept[t].n) = kept[t].src

\* no element occurs twice in the sequence
NoRepeat(seq) == \A i, j \in 1..Len(seq) : i # j => seq[i] # seq[j]

\* the keys of a sequence of tuples
KeysOf(seq) == [i \in 1..Len(seq) |-> seq[i][1]]

\* C22: every key is stored in the shard its hash selects and in no other;
\* the keys a Keys call has collected and the tuples an Iter or IterBuffered
\* call has delivered hold each key at most once, whatever other threads
\* write meanwhile; and each key reported was in the map at some instant of
\* the call (for Iter and IterBuffered: before the channel was returned).
C22_NoKeyTwice ==
    /\ \A i \in 1..Len(shards) : \A k \in DOMAIN shards[i] : GetShard(k).sh = i
    /\ \A t \in Threads :
          /\ (op[t].name = "Keys" /\ pc[t] # "idle") =>
                /\ NoRepeat(bulk[t].keys)
                /\ \A k \in Range1(bulk[t].keys) :
                      \E g \in bulk[t].states : k \in DOMAIN g
          /\ (op[t].name \in {"Iter", "IterBuffered"} /\ pc[t] # "idle") =>
                /\ NoRepeat(KeysOf(bulk[t].got))
                /\ \A k \in Range1(KeysOf(bulk[t].got)) :
                      \E g \in bulk[t].states : k \in DOMAIN g

\* Iter has delivered two keys, of different shards, one of them stored by
\* another thread during the call
C22_Witness ==
    \E t \in Threads :
        /\ In(t, "Iter", {"bulk_ret"})
        /\ Len(bulk[t].got) = 2
        /\ GetShard(bulk[t].got[1][1]).sh # GetShard(bulk[t].got[2][1]).sh
        /\ Cardinality(bulk[t].states) > 1

\* a goroutine working for some call can take a step
SomeStep ==
    \E t \in Threads :
        \/ ENABLED ThreadStep(t)
        \/ ENABLED FanInClose(t)
        \/ ENABLED KeysClose(t)
        \/ \E i \in 1..Len(shards) :
              \/ ENABLED SnapshotTask(t, i)
              \/ ENABLED FanInTask(t, i)
              \/ ENABLED KeysTask(t, i)

\* while a call is in progress nothing has panicked and not every goroutine
\* is blocked
NeverAllBlocked ==
    /\ Running
    /\ (\E t \in Threads : pc[t] # "idle") => SomeStep

\* C21: on a constructed map, with callbacks that return without calling the
\* map and a fair scheduler, no state has every goroutine blocked, and every
\* call made returns, whatever calls other threads make meanwhile; for Iter
\* and IterBuffered: the consumer that drains the channel sees it closed.
C21_EveryCallReturns ==
    /\ []NeverAllBlocked
    /\ \A t \in Threads : (pc[t] # "idle") ~> (pc[t] = "idle")

\* Clear waits for the write lock of a shard that a goroutine of its own
\* snapshot still holds for reading, while another thread waits for it too
C21_Witness ==
    \E t, u \in Threads :
        /\ In(t, "Clear", {"lock"})
        /\ <<t, loc[t].sh>> \in readers[loc[t].sh]
        /\ u # t /\ pc[u] = "lock" /\ loc[u].sh = loc[t].sh

====
